---------------------------- MODULE Spec2Model ----------------------------
(***************************************************************************)
(* Model of the LLM response-contract pipeline of PocketFlowNode:          *)
(*   stage 1  identifyAbstractions   (src/core/identify-abstractions.ts)   *)
(*   stage 2  analyzeRelationships   (src/core/analyze-relationships.ts)   *)
(*   stage 3  orderChapters          (src/core/order-chapters.ts)          *)
(*   stage 4  writeChapters          (src/core/write-chapters.ts)          *)
(* and of the three reference parsers the stages use.                      *)
(*                                                                         *)
(* Representation.                                                         *)
(*  - A JavaScript string is a sequence of one-character strings.          *)
(*  - A JavaScript number is an integer counting HALVES, so that the       *)
(*    non-integer numbers YAML can produce (0.5, 1.5) are values of the    *)
(*    model: FromInt(1) = 2 is the number 1, and 1 is the number 0.5.      *)
(*    NaN is a separate flag of the value.                                 *)
(*  - A value parsed from YAML is a record [t, nan, h, s, b]: t is the     *)
(*    kind, h the number (in halves), s the string, b the boolean.         *)
(***************************************************************************)
EXTENDS Integers, Sequences, FiniteSets, TLC

(***************************************************************************)
(* Bounds of the model.                                                    *)
(***************************************************************************)
\* largest maxIndex the reference parsers are called with on their own
MaxRefIndex == 11
\* largest number of abstractions handed to stages 2 and 3
MaxAbstractions == 3
\* largest number of files handed to stage 1
MaxFiles == 2
\* longest list the LLM answers with in stage 3
MaxOrderLen == 3
\* longest list of raw items the LLM answers with in stages 1 and 2
MaxItems == 3
\* longest file_indices list of an item, all lists of that length being tried
MaxIndices == 2
\* longest chapterOrder handed to stage 4
MaxChapters == 2
\* largest number of abstractions handed to stage 4
MaxWriteAbstractions == 2
\* longest title sanitizeFilename is called with on its own
MaxTitleLen == 4
\* largest chapter number sanitizeFilename is called with on its own
MaxChapterNum == 100

(***************************************************************************)
(* JavaScript values.                                                      *)
(***************************************************************************)
FromInt(i) == 2 * i
IsInteger(h) == h % 2 = 0
ToInt(h) == h \div 2

JsNumber(h) == [t |-> "number", nan |-> FALSE, h |-> h, s |-> <<>>, b |-> FALSE]
JsNaN == [t |-> "number", nan |-> TRUE, h |-> 0, s |-> <<>>, b |-> FALSE]
JsString(s) == [t |-> "string", nan |-> FALSE, h |-> 0, s |-> s, b |-> FALSE]
JsBoolean(b) == [t |-> "boolean", nan |-> FALSE, h |-> 0, s |-> <<>>, b |-> b]
JsNull == [t |-> "null", nan |-> FALSE, h |-> 0, s |-> <<>>, b |-> FALSE]
JsUndefined == [t |-> "undefined", nan |-> FALSE, h |-> 0, s |-> <<>>, b |-> FALSE]
JsObject == [t |-> "object", nan |-> FALSE, h |-> 0, s |-> <<>>, b |-> FALSE]

\* typeof v
TypeOf(v) == IF v.t = "null" THEN "object" ELSE v.t

\* ToBoolean(v), the test behind !v
Truthy(v) ==
    CASE v.t = "number" -> ~v.nan /\ v.h # 0
      [] v.t = "string" -> v.s # <<>>
      [] v.t = "boolean" -> v.b
      [] v.t = "object" -> TRUE
      [] OTHER -> FALSE

(***************************************************************************)
(* Strings.                                                                *)
(***************************************************************************)
Digits == <<"0", "1", "2", "3", "4", "5", "6", "7", "8", "9">>

IsDigit(c) == \E i \in 1..Len(Digits) : Digits[i] = c
DigitVal(c) == (CHOOSE i \in 1..Len(Digits) : Digits[i] = c) - 1
\* white space: what \s matches and trim() drops
IsSpace(c) == c \in {" ", "\t", "\n"}

\* the run of digits a string starts with: match[1] of /^(\d+)/, <<>> when
\* the expression does not match
RECURSIVE LeadingDigits(_)
LeadingDigits(s) ==
    IF s # <<>> /\ IsDigit(Head(s))
    THEN <<Head(s)>> \o LeadingDigits(Tail(s))
    ELSE <<>>

\* the value of a non-empty run of decimal digits
RECURSIVE DecimalValue(_)
DecimalValue(ds) ==
    IF ds = <<>> THEN 0
    ELSE 10 * DecimalValue(SubSeq(ds, 1, Len(ds) - 1)) + DigitVal(ds[Len(ds)])

\* String(i) for an integer i >= 0
RECURSIVE ToDecimal(_)
ToDecimal(i) ==
    IF i < 10 THEN <<Digits[i + 1]>>
    ELSE ToDecimal(i \div 10) \o <<Digits[(i % 10) + 1]>>

RECURSIVE TrimStart(_)
TrimStart(s) ==
    IF s # <<>> /\ IsSpace(Head(s)) THEN TrimStart(Tail(s)) ELSE s

RECURSIVE TrimEnd(_)
TrimEnd(s) ==
    IF s # <<>> /\ IsSpace(s[Len(s)]) THEN TrimEnd(SubSeq(s, 1, Len(s) - 1)) ELSE s

\* s.trim()
Trim(s) == TrimEnd(TrimStart(s))

Upper ==
    <<"A", "B", "C", "D", "E", "F", "G", "H", "I", "J", "K", "L", "M",
      "N", "O", "P", "Q", "R", "S", "T", "U", "V", "W", "X", "Y", "Z">>
Lower ==
    <<"a", "b", "c", "d", "e", "f", "g", "h", "i", "j", "k", "l", "m",
      "n", "o", "p", "q", "r", "s", "t", "u", "v", "w", "x", "y", "z">>

IsUpper(c) == \E k \in 1..Len(Upper) : Upper[k] = c
IsLower(c) == \E k \in 1..Len(Lower) : Lower[k] = c

\* c.toLowerCase()
ToLowerChar(c) ==
    IF IsUpper(c) THEN Lower[CHOOSE k \in 1..Len(Upper) : Upper[k] = c] ELSE c

\* s.toLowerCase()
ToLowerCase(s) == [k \in DOMAIN s |-> ToLowerChar(s[k])]

\* \w
IsWordChar(c) == IsUpper(c) \/ IsLower(c) \/ IsDigit(c) \/ c = "_"

\* s.replace(/\s+/g, '_')
RECURSIVE ReplaceSpaceRuns(_)
ReplaceSpaceRuns(s) ==
    IF s = <<>> THEN <<>>
    ELSE IF IsSpace(Head(s)) THEN <<"_">> \o ReplaceSpaceRuns(TrimStart(s))
    ELSE <<Head(s)>> \o ReplaceSpaceRuns(Tail(s))

\* s.replace(/[^\w_.-]/g, '')
StripSpecial(s) == SelectSeq(s, LAMBDA c : IsWordChar(c) \/ c = "." \/ c = "-")

\* s.replace(/_/g, '')
StripUnderscores(s) == SelectSeq(s, LAMBDA c : c # "_")

\* s.padStart(2, '0')
PadStart2(s) == IF Len(s) < 2 THEN <<"0">> \o s ELSE s

\* String(x) for a number x >= 0 given in halves
NumberToString(h) ==
    IF IsInteger(h) THEN ToDecimal(ToInt(h)) ELSE ToDecimal(h \div 2) \o <<".", "5">>

\* s.startsWith('#')
StartsWithHash(s) == s # <<>> /\ Head(s) = "#"

\* parseInt(s, 10): leading white space is skipped, one sign is accepted,
\* then the leading digits are read; NaN when there are none
ParseInt(s) ==
    LET t == TrimStart(s)
        signed == t # <<>> /\ Head(t) \in {"+", "-"}
        body == IF signed THEN Tail(t) ELSE t
        ds == LeadingDigits(body)
    IN  IF ds = <<>> THEN [nan |-> TRUE, h |-> 0]
        ELSE IF signed /\ Head(t) = "-"
             THEN [nan |-> FALSE, h |-> 0 - FromInt(DecimalValue(ds))]
             ELSE [nan |-> FALSE, h |-> FromInt(DecimalValue(ds))]

(***************************************************************************)
(* The reference parsers.  Each returns [ok, err, val]: ok = FALSE is a    *)
(* throw and err its kind; val is the parsed number, in halves.            *)
(***************************************************************************)
Parsed(h) == [ok |-> TRUE, err |-> "none", val |-> h]
Thrown(kind, h) == [ok |-> FALSE, err |-> kind, val |-> h]

\* BoundsCheck with >= in place of >
BoundsCheckOffByOne(nan, h, maxIndex) ==
    IF nan \/ h < 0 \/ h >= FromInt(maxIndex)
    THEN Thrown("bounds", h)
    ELSE Parsed(h)

\* if (isNaN(indexInt) || indexInt < 0 || indexInt > maxIndex) throw
BoundsCheck(nan, h, maxIndex) ==
    IF nan \/ h < 0 \/ h > FromInt(maxIndex)
    THEN Thrown("bounds", h)
    ELSE Parsed(h)

validateFileIndex(rawIndex, maxIndex) ==
    IF TypeOf(rawIndex) = "number"
    THEN BoundsCheck(rawIndex.nan, rawIndex.h, maxIndex)
    ELSE IF TypeOf(rawIndex) = "string"
    THEN LET ds == LeadingDigits(rawIndex.s)
         IN  IF ds # <<>>
             THEN BoundsCheck(FALSE, FromInt(DecimalValue(ds)), maxIndex)
             ELSE Thrown("format", 0)
    ELSE Thrown("type", 0)

parseAbstractionRef(rawRef, maxIndex) ==
    IF TypeOf(rawRef) = "number"
    THEN BoundsCheck(rawRef.nan, rawRef.h, maxIndex)
    ELSE IF TypeOf(rawRef) = "string"
    THEN LET ds == LeadingDigits(rawRef.s)
         IN  IF ds # <<>>
             THEN BoundsCheck(FALSE, FromInt(DecimalValue(ds)), maxIndex)
             ELSE Thrown("format", 0)
    ELSE Thrown("type", 0)

parseAbstractionRefForOrder(rawRef, maxIndex) ==
    IF TypeOf(rawRef) = "number"
    THEN BoundsCheck(rawRef.nan, rawRef.h, maxIndex)
    ELSE IF TypeOf(rawRef) = "string"
    THEN LET ds == LeadingDigits(rawRef.s)
         IN  IF ds # <<>>
             THEN BoundsCheck(FALSE, FromInt(DecimalValue(ds)), maxIndex)
             ELSE LET directInt == ParseInt(rawRef.s)
                  IN  IF ~directInt.nan
                      THEN BoundsCheck(FALSE, directInt.h, maxIndex)
                      ELSE Thrown("format", 0)
    ELSE Thrown("type", 0)


(***************************************************************************)
(* State.                                                                  *)
(*   stage         the stage function that is called                       *)
(*   pc            "idle" before the call, "running" inside the chapter    *)
(*                 loop of stage 4, "done" once it returned or rejected    *)
(*   filesData     the FetchedFile[] argument                              *)
(*   abstractions  the Abstraction[] argument                              *)
(*   chapterOrder  the number[] argument of stage 4                        *)
(*   rawRef        the raw argument of a direct call of a reference parser *)
(*   maxIndex      the maxIndex argument of that call                      *)
(*   llmResponse   what the last LLM call resolved to                      *)
(*   llmCalls      number of generateContent calls issued by the stage     *)
(*   result        outcome of the call                                     *)
(*   utilCalls     number of callLlm calls issued by stage 4               *)
(*   pos           stage 4: the loop variable i                            *)
(*   written       stage 4: chaptersWrittenSoFarSummary                    *)
(*   outputs       stage 4: allChapterOutputs                              *)
(*   prompts       stage 4: the prompts sent so far, by their variable     *)
(*                 parts                                                   *)
(***************************************************************************)
VARIABLES stage, pc, filesData, abstractions, chapterOrder, rawRef, maxIndex,
          llmResponse, llmCalls, result, utilCalls, pos, written, outputs, prompts,
          sanitizeCall, invoked, settled, responses, projectAnalysis,
          cacheFile, contentCalls, rawText

vars == <<stage, pc, filesData, abstractions, chapterOrder, rawRef, maxIndex,
          llmResponse, llmCalls, result, utilCalls, pos, written, outputs, prompts,
          sanitizeCall, invoked, settled, responses, projectAnalysis,
          cacheFile, contentCalls, rawText>>

\* the state of a /generate-tutorial request: the stages invoked so far, how
\* each of them settled, and the status codes of the HTTP responses sent
handlerVars == <<invoked, settled, responses>>

\* no request is being handled
RequestIdle ==
    /\ invoked = <<>>
    /\ settled = <<>>
    /\ responses = <<>>

\* the arguments of a sanitizeFilename call, and their value where the
\* function is not called on its own
SanitizeArgs(name, chapterNum) == [name |-> name, chapterNum |-> chapterNum]
NoCall == SanitizeArgs(<<>>, 0)

\* the state of the LLM cache: the content of llm_cache.json and the
\* generateContent calls of the provider
cacheVars == <<cacheFile, contentCalls>>

\* an entry of the cache object under one key: has says that the key is
\* there, text is the string stored under it
Entry(has, text) == [has |-> has, text |-> text]
NoEntry == Entry(FALSE, <<>>)

\* the two cache keys, hashPrompt(prompt + JSON.stringify(options)) of two
\* different pairs of prompt and options
CacheKeys == {"k1", "k2"}

\* {} and a missing cache file
EmptyCache == [k \in CacheKeys |-> NoEntry]

\* no generateContent call is made
CacheIdle ==
    /\ cacheFile = EmptyCache
    /\ contentCalls = <<>>

\* the state of the chapter loop of stage 4
writeVars == <<utilCalls, pos, written, outputs, prompts>>

\* before stage 4 has started
WriteIdle ==
    /\ utilCalls = 0
    /\ pos = 0
    /\ written = <<>>
    /\ outputs = <<>>
    /\ prompts = <<>>

\* the arguments of the call, which no stage assigns
args ==
    <<stage, filesData, abstractions, chapterOrder, rawRef, maxIndex, sanitizeCall,
      projectAnalysis>>

NoError == [kind |-> "none", cause |-> "none", index |-> 0, missing |-> <<>>]
Error(kind, cause, index, missing) ==
    [kind |-> kind, cause |-> cause, index |-> index, missing |-> missing]

Returned(v) == [status |-> "returned", value |-> v, error |-> NoError]
Rejected(e) == [status |-> "rejected", value |-> <<>>, error |-> e]
Pending == [status |-> "pending", value |-> <<>>, error |-> NoError]

\* what generateContent resolves to, after the ```yaml block was extracted
\* and handed to yaml.load: the adapter rejected, yaml.load threw, or a value
\* (top: "array" with its items; "scalar" with the value in scalar; "item", a
\* map with the keys of one abstraction, kept as the one element of items;
\* "analysis", a map with summary and relationships, where listed says that
\* relationships is an array and items holds it)
Response(kind, top, items, scalar, summary, listed) ==
    [kind |-> kind, top |-> top, items |-> items, scalar |-> scalar,
     summary |-> summary, listed |-> listed]
LlmRejected == Response("rejected", "none", <<>>, JsUndefined, JsUndefined, FALSE)
BadYaml == Response("badYaml", "none", <<>>, JsUndefined, JsUndefined, FALSE)
YamlArray(items) == Response("value", "array", items, JsUndefined, JsUndefined, FALSE)
YamlScalar(v) == Response("value", "scalar", <<>>, v, JsUndefined, FALSE)
YamlItem(item) == Response("value", "item", <<item>>, JsUndefined, JsUndefined, FALSE)
YamlAnalysis(summary, listed, rels) ==
    Response("value", "analysis", rels, JsUndefined, summary, listed)
NoResponse == Response("none", "none", <<>>, JsUndefined, JsUndefined, FALSE)

\* a text handed to yaml.load: whether it is the empty string, and what
\* yaml.load does with it; yaml.load("") is undefined
YamlText(empty, loaded) == [empty |-> empty, loaded |-> loaded]
EmptyText == YamlText(TRUE, YamlScalar(JsUndefined))

\* the text generateContent resolved to, as far as the extraction looks at
\* it: whether /```yaml\n([\s\S]*?)\n```/ matches (fenced), the group of the
\* first match (interior) and the whole text
LlmText(given, fenced, interior, whole) ==
    [given |-> given, fenced |-> fenced, interior |-> interior, whole |-> whole]
NoText == LlmText(FALSE, FALSE, EmptyText, EmptyText)

\* all sequences over S of length at most n
SeqsUpTo(S, n) == UNION {[1..k -> S] : k \in 0..n}

(***************************************************************************)
(* Records of the data model and of the parsed YAML.                       *)
(***************************************************************************)
\* one element of the YAML list: obj says that it is a map; name and
\* description are the values under those keys; file_indices is the array
\* under that key when fiIsArray, and otherwise fiOther is what is there
RawItem(obj, name, description, fiIsArray, file_indices, fiOther) ==
    [obj |-> obj, name |-> name, description |-> description,
     fiIsArray |-> fiIsArray, file_indices |-> file_indices, fiOther |-> fiOther]

Abstraction(name, description, fileIndices) ==
    [name |-> name, description |-> description, fileIndices |-> fileIndices]

\* one element of relationships: obj says that it is a map; the other fields
\* are the values under the keys label, from_abstraction and to_abstraction
RawRel(obj, label, from_abstraction, to_abstraction) ==
    [obj |-> obj, label |-> label,
     from_abstraction |-> from_abstraction, to_abstraction |-> to_abstraction]

Relationship(from, to, label) == [from |-> from, to |-> to, label |-> label]

ProjectAnalysis(summary, relationships) ==
    [summary |-> summary, relationships |-> relationships]

\* the value of projectAnalysis where no analysis is handed over
NoAnalysis == ProjectAnalysis(<<>>, <<>>)

(***************************************************************************)
(* Inputs.                                                                 *)
(***************************************************************************)
\* the forms the prompts ask the model to write index i in: the integer,
\* the numeric string and "i # Name"
NameSuffix == <<" ", "#", " ", "a">>
RefForms(i) ==
    {JsNumber(FromInt(i)), JsString(ToDecimal(i)), JsString(ToDecimal(i) \o NameSuffix)}

\* other scalars YAML can deliver in place of a reference: 0.5, " 1", "a", null
OddRefs == {JsNumber(1), JsString(<<" ", "1">>), JsString(<<"a">>), JsNull}

\* Abstraction[] of length M; stages 2 and 3 validate against its length only
AbstractionAt(i) == Abstraction(<<"A">> \o ToDecimal(i), <<"d">>, <<FromInt(0)>>)
AbstractionsOfLen(M) == [i \in 1..M |-> AbstractionAt(i - 1)]

\* FetchedFile[] of length N
FileAt(i) == [path |-> <<"f">> \o ToDecimal(i), content |-> <<"c">>]
FilesOfLen(N) == [i \in 1..N |-> FileAt(i - 1)]

\* strings the model writes names, descriptions, summaries and labels as
TextA == <<"U", "I">>
TextPadded == <<" ", "D", "B", " ">>
TextBlank == <<" ", " ">>

\* what can stand under a key that should hold a text
TextValues ==
    {JsUndefined, JsNull, JsNumber(FromInt(1)), JsString(<<>>), JsString(TextBlank),
     JsString(TextA), JsString(TextPadded)}

\* what can stand in file_indices: the accepted forms of the indices up to
\* MaxFiles (one past the largest valid index), 0.5, " 1", "a", null
FileIndexPool == UNION {RefForms(i) : i \in 0..MaxFiles} \cup OddRefs

GoodItem(name, file_indices) ==
    RawItem(TRUE, JsString(name), JsString(<<"d">>), TRUE, file_indices, JsUndefined)

\* every shape of a single item: not a map, a bad name, a bad description,
\* file_indices that is no array, and every list of indices
AllItems ==
    {RawItem(FALSE, JsUndefined, JsUndefined, FALSE, <<>>, JsUndefined)}
        \cup {RawItem(TRUE, n, JsString(<<"d">>), TRUE, <<JsNumber(FromInt(0))>>, JsUndefined)
                 : n \in TextValues}
        \cup {RawItem(TRUE, JsString(TextA), d, TRUE, <<JsNumber(FromInt(0))>>, JsUndefined)
                 : d \in TextValues}
        \cup {RawItem(TRUE, JsString(TextA), JsString(<<"d">>), FALSE, <<>>, v)
                 : v \in {JsUndefined, JsNumber(FromInt(0)), JsString(<<"0">>)}}
        \cup {GoodItem(TextPadded, l) : l \in SeqsUpTo(FileIndexPool, MaxIndices)}

\* the items that longer lists are made of
ListItems ==
    {RawItem(FALSE, JsUndefined, JsUndefined, FALSE, <<>>, JsUndefined),
     RawItem(TRUE, JsString(TextBlank), JsString(<<"d">>), TRUE,
             <<JsNumber(FromInt(0))>>, JsUndefined),
     GoodItem(TextA, <<JsNumber(FromInt(0))>>),
     GoodItem(TextPadded, <<JsString(<<"1">> \o NameSuffix), JsNumber(FromInt(0))>>),
     GoodItem(TextA, <<JsNumber(FromInt(0)), JsNumber(FromInt(MaxFiles))>>),
     GoodItem(TextA, <<JsString(<<"a">>), JsNumber(FromInt(0))>>),
     GoodItem(TextA, <<JsNumber(1)>>),
     GoodItem(TextA, <<>>)}

IdentifyResponses ==
    {LlmRejected, BadYaml, YamlScalar(JsNumber(FromInt(0))), YamlScalar(JsNull)}
        \cup {YamlItem(it) : it \in AllItems}
        \cup {YamlArray(<<it>>) : it \in AllItems}
        \cup {YamlArray(l) : l \in SeqsUpTo(ListItems, MaxItems)}

\* what can stand in from_abstraction and to_abstraction: the accepted forms
\* of the indices up to MaxAbstractions (one past the largest valid index),
\* 0.5, " 1", "a", null, nothing and ""
RelRefPool ==
    UNION {RefForms(i) : i \in 0..MaxAbstractions} \cup OddRefs
        \cup {JsUndefined, JsString(<<>>)}

\* every shape of a single relationship
AllRels ==
    {RawRel(FALSE, JsUndefined, JsUndefined, JsUndefined)}
        \cup {RawRel(TRUE, l, JsString(<<"0">> \o NameSuffix), JsNumber(FromInt(0)))
                 : l \in TextValues}
        \cup {RawRel(TRUE, JsString(TextPadded), f, g) : f \in RelRefPool, g \in RelRefPool}

\* the relationships that longer lists are made of
ListRels ==
    {RawRel(FALSE, JsUndefined, JsUndefined, JsUndefined),
     RawRel(TRUE, JsString(TextBlank), JsNumber(FromInt(1)), JsNumber(FromInt(1))),
     RawRel(TRUE, JsString(TextA), JsString(<<"0">> \o NameSuffix), JsString(<<"1">>)),
     RawRel(TRUE, JsString(TextPadded), JsNumber(FromInt(1)), JsNumber(FromInt(1))),
     RawRel(TRUE, JsString(TextA), JsNumber(FromInt(0)), JsNumber(FromInt(1))),
     RawRel(TRUE, JsString(TextA), JsNumber(FromInt(1)), JsString(<<"a">>)),
     RawRel(TRUE, JsString(TextA), JsNumber(1), JsNumber(FromInt(MaxAbstractions)))}

AnalyzeResponses ==
    {LlmRejected, BadYaml, YamlScalar(JsNumber(FromInt(0))), YamlScalar(JsNull),
     YamlArray(<<>>)}
        \cup {YamlAnalysis(s, FALSE, <<>>) : s \in TextValues}
        \cup {YamlAnalysis(s, TRUE, <<r>>) : s \in TextValues, r \in AllRels}
        \cup {YamlAnalysis(s, TRUE, l) : s \in TextValues, l \in SeqsUpTo(ListRels, MaxItems)}

\* arguments of stage 4: abstractions whose names give the same file name
\* slug ("UI", "ui") or none ("#!"), and orders that repeat an index or hold
\* an index that no abstraction has (0.5, MaxAbstractions)
WriteNames == {TextA, <<"u", "i">>, <<"#", "!">>}
WriteAbstractions ==
    {[k \in DOMAIN ns |-> Abstraction(ns[k], <<"d">>, <<FromInt(0)>>)]
        : ns \in SeqsUpTo(WriteNames, MaxWriteAbstractions)}
WriteOrderPool ==
    {FromInt(i) : i \in 0..(MaxWriteAbstractions - 1)}
        \cup {1, FromInt(MaxWriteAbstractions)}

\* a chapter text of 501 characters, longer than a digest keeps
LongChapterText == [k \in 1..501 |-> "x"]

\* what generateContent resolves to in stage 4: a text with a heading, a
\* text with a heading after white space, a text without, a long text, or a
\* rejection
ChapterResponses ==
    {LlmRejected, YamlScalar(JsString(<<"#", " ", "T">>)),
     YamlScalar(JsString(<<" ", "#", "T">>)), YamlScalar(JsString(<<"t", "#">>)),
     YamlScalar(JsString(LongChapterText))}

\* the analyses orderChapters is called with: one without and one with
\* relationships (a self-loop on abstraction 0)
OrderAnalyses ==
    {ProjectAnalysis(TextA, <<>>),
     ProjectAnalysis(TextA, <<Relationship(FromInt(0), FromInt(0), TextA)>>)}

OrderRefPool == UNION {RefForms(i) : i \in 0..(MaxAbstractions - 1)} \cup OddRefs

OrderResponses ==
    {LlmRejected, BadYaml, YamlScalar(JsNumber(FromInt(0)))}
        \cup {YamlArray(l) : l \in SeqsUpTo(OrderRefPool, MaxOrderLen)}

(***************************************************************************)
(* Direct calls of the three reference parsers.                            *)
(***************************************************************************)
ParserNames == {"validateFileIndex", "parseAbstractionRef", "parseAbstractionRefForOrder"}

ValidateFileIndex ==
    /\ stage = "validateFileIndex"
    /\ pc = "idle"
    /\ result' = validateFileIndex(rawRef, maxIndex)
    /\ pc' = "done"
    /\ UNCHANGED <<args, handlerVars, cacheVars, rawText, llmResponse, llmCalls, writeVars>>

ParseAbstractionRef ==
    /\ stage = "parseAbstractionRef"
    /\ pc = "idle"
    /\ result' = parseAbstractionRef(rawRef, maxIndex)
    /\ pc' = "done"
    /\ UNCHANGED <<args, handlerVars, cacheVars, rawText, llmResponse, llmCalls, writeVars>>

ParseAbstractionRefForOrder ==
    /\ stage = "parseAbstractionRefForOrder"
    /\ pc = "idle"
    /\ result' = parseAbstractionRefForOrder(rawRef, maxIndex)
    /\ pc' = "done"
    /\ UNCHANGED <<args, handlerVars, cacheVars, rawText, llmResponse, llmCalls, writeVars>>

\* raw values the parsers are called with: numbers from -1 to maxIndex + 1.5
\* in steps of one half, NaN, strings made of a prefix, a digit run and a
\* suffix, and values of the other types
Prefixes == {<<>>, <<" ">>, <<"+">>, <<"-">>}
DigitRuns ==
    {<<>>, <<"0", "0">>, <<"0", "1">>} \cup {ToDecimal(i) : i \in 0..(MaxRefIndex + 1)}
Suffixes == {<<>>, NameSuffix, <<"a", "b", "c">>, <<".", "5">>}

ParserStrings == {p \o d \o s : p \in Prefixes, d \in DigitRuns, s \in Suffixes}

ParserRaws ==
    {JsNumber(h) : h \in (0 - 2)..(FromInt(MaxRefIndex + 1) + 1)}
        \cup {JsNaN, JsNull, JsUndefined, JsBoolean(TRUE), JsBoolean(FALSE), JsObject}
        \cup {JsString(s) : s \in ParserStrings}

InitParse ==
    /\ stage \in ParserNames
    /\ pc = "idle"
    /\ filesData = <<>>
    /\ abstractions = <<>>
    /\ chapterOrder = <<>>
    /\ rawRef \in ParserRaws
    /\ maxIndex \in 0..MaxRefIndex
    /\ llmResponse = NoResponse
    /\ llmCalls = 0
    /\ result = Pending
    /\ WriteIdle
    /\ sanitizeCall = NoCall
    /\ RequestIdle
    /\ rawText = NoText
    /\ projectAnalysis = NoAnalysis
    /\ CacheIdle

NextParse == ValidateFileIndex \/ ParseAbstractionRef \/ ParseAbstractionRefForOrder

SpecParse == InitParse /\ [][NextParse]_vars

ParseDone == stage \in ParserNames /\ pc = "done"

\* a string such as "abc": no digit in it
HasNoDigit(s) == \A k \in DOMAIN s : ~IsDigit(s[k])

SameOutcome(p, q) == p.ok = q.ok /\ (p.ok => p.val = q.val)

\* C6: the three parsers are equivalent: on every raw value and maxIndex
\* either all three throw or all three return the same index.
C6_ParsersEquivalent ==
    ParseDone =>
        /\ SameOutcome(validateFileIndex(rawRef, maxIndex),
                       parseAbstractionRef(rawRef, maxIndex))
        /\ SameOutcome(parseAbstractionRef(rawRef, maxIndex),
                       parseAbstractionRefForOrder(rawRef, maxIndex))

(***************************************************************************)
(* Stage 1: identifyAbstractions.                                          *)
(***************************************************************************)
\* typeof v !== 'string' || !v.trim()
MissingOrBlank(v) == TypeOf(v) # "string" \/ Trim(v.s) = <<>>

\* rawAbs.file_indices.map(idx => validateFileIndex(idx, maxValidIndex)):
\* the first index that does not validate throws out of the map
RECURSIVE MapValidateFileIndex(_, _)
MapValidateFileIndex(file_indices, maxValidIndex) ==
    IF file_indices = <<>> THEN [ok |-> TRUE, vals |-> <<>>]
    ELSE LET p == validateFileIndex(Head(file_indices), maxValidIndex)
         IN  IF ~p.ok THEN [ok |-> FALSE, vals |-> <<>>]
             ELSE LET rest == MapValidateFileIndex(Tail(file_indices), maxValidIndex)
                  IN  IF ~rest.ok THEN rest
                      ELSE [ok |-> TRUE, vals |-> <<p.val>> \o rest.vals]

\* IdentifyLoop with the invalid indices filtered out of the item
RECURSIVE FilterValidFileIndex(_, _)
FilterValidFileIndex(file_indices, maxValidIndex) ==
    IF file_indices = <<>> THEN <<>>
    ELSE LET p == validateFileIndex(Head(file_indices), maxValidIndex)
         IN  (IF p.ok THEN <<p.val>> ELSE <<>>)
                 \o FilterValidFileIndex(Tail(file_indices), maxValidIndex)

RECURSIVE IdentifyLoopPartial(_, _, _)
IdentifyLoopPartial(rawAbstractions, maxValidIndex, validatedAbstractions) ==
    IF rawAbstractions = <<>> THEN validatedAbstractions
    ELSE LET rawAbs == Head(rawAbstractions)
             rest == Tail(rawAbstractions)
         IN  IF ~rawAbs.obj
                  \/ MissingOrBlank(rawAbs.name)
                  \/ MissingOrBlank(rawAbs.description)
                  \/ ~rawAbs.fiIsArray
                  \/ Len(rawAbs.file_indices) = 0
             THEN IdentifyLoopPartial(rest, maxValidIndex, validatedAbstractions)
             ELSE IdentifyLoopPartial(rest, maxValidIndex,
                      Append(validatedAbstractions,
                             Abstraction(Trim(rawAbs.name.s), Trim(rawAbs.description.s),
                                 FilterValidFileIndex(rawAbs.file_indices, maxValidIndex))))

\* the for loop over rawAbstractions
RECURSIVE IdentifyLoop(_, _, _)
IdentifyLoop(rawAbstractions, maxValidIndex, validatedAbstractions) ==
    IF rawAbstractions = <<>> THEN validatedAbstractions
    ELSE LET rawAbs == Head(rawAbstractions)
             rest == Tail(rawAbstractions)
         IN  IF ~rawAbs.obj
             THEN IdentifyLoop(rest, maxValidIndex, validatedAbstractions)
             ELSE IF MissingOrBlank(rawAbs.name)
             THEN IdentifyLoop(rest, maxValidIndex, validatedAbstractions)
             ELSE IF MissingOrBlank(rawAbs.description)
             THEN IdentifyLoop(rest, maxValidIndex, validatedAbstractions)
             ELSE IF ~rawAbs.fiIsArray \/ Len(rawAbs.file_indices) = 0
             THEN IdentifyLoop(rest, maxValidIndex, validatedAbstractions)
             ELSE LET validatedIndices ==
                          MapValidateFileIndex(rawAbs.file_indices, maxValidIndex)
                  IN  IF validatedIndices.ok
                      THEN IdentifyLoop(rest, maxValidIndex,
                               Append(validatedAbstractions,
                                      Abstraction(Trim(rawAbs.name.s),
                                                  Trim(rawAbs.description.s),
                                                  validatedIndices.vals)))
                      ELSE IdentifyLoop(rest, maxValidIndex, validatedAbstractions)

\* rawAbstractions.name && rawAbstractions.description && rawAbstractions.file_indices
LooksLikeAbstraction(item) ==
    /\ item.obj
    /\ Truthy(item.name)
    /\ Truthy(item.description)
    /\ (item.fiIsArray \/ Truthy(item.fiOther))

\* the validation of the parsed LLM answer, after the LLM call
ValidateAbstractions(files, response) ==
    IF response.kind = "rejected" THEN Rejected(Error("llm", "none", 0, <<>>))
    ELSE IF response.kind = "badYaml" THEN Rejected(Error("yaml", "none", 0, <<>>))
    ELSE IF response.top = "array"
    THEN Returned(IdentifyLoop(response.items, Len(files) - 1, <<>>))
    ELSE IF response.top = "item" /\ LooksLikeAbstraction(response.items[1])
    THEN Returned(IdentifyLoop(response.items, Len(files) - 1, <<>>))
    ELSE Rejected(Error("notArray", "none", 0, <<>>))

\* identifyAbstractions(filesData, projectName, llmProvider)
IdentifyAbstractions ==
    /\ stage = "identifyAbstractions"
    /\ pc = "idle"
    /\ IF Len(filesData) = 0
       THEN /\ result' = Returned(<<>>)
            /\ UNCHANGED <<llmResponse, llmCalls>>
       ELSE \E response \in IdentifyResponses :
            /\ llmCalls' = llmCalls + 1
            /\ llmResponse' = response
            /\ result' = ValidateAbstractions(filesData, response)
    /\ pc' = "done"
    /\ UNCHANGED <<args, handlerVars, cacheVars, rawText, writeVars>>

InitIdentify ==
    /\ stage = "identifyAbstractions"
    /\ pc = "idle"
    /\ filesData \in {FilesOfLen(N) : N \in 0..MaxFiles}
    /\ abstractions = <<>>
    /\ chapterOrder = <<>>
    /\ rawRef = JsUndefined
    /\ maxIndex = 0
    /\ llmResponse = NoResponse
    /\ llmCalls = 0
    /\ result = Pending
    /\ WriteIdle
    /\ sanitizeCall = NoCall
    /\ RequestIdle
    /\ rawText = NoText
    /\ projectAnalysis = NoAnalysis
    /\ CacheIdle

NextIdentify == IdentifyAbstractions

SpecIdentify == InitIdentify /\ [][NextIdentify]_vars

(***************************************************************************)
(* Properties of stage 1.                                                  *)
(***************************************************************************)
IdentifyDone == stage = "identifyAbstractions" /\ pc = "done"

\* the stage went through its item loop: the model answered with a list, or
\* with one map that was wrapped into a list
IdentifyGotItems ==
    /\ IdentifyDone
    /\ llmResponse.kind = "value"
    /\ \/ llmResponse.top = "array"
       \/ llmResponse.top = "item" /\ LooksLikeAbstraction(llmResponse.items[1])

\* C7: every abstraction returned over N files has a non-empty trimmed name,
\* a non-empty trimmed description and a non-empty fileIndices whose
\* elements are integers of [0, N-1].
C7_ReturnedAbstractionsValid ==
    (IdentifyDone /\ result.status = "returned")
        => \A k \in DOMAIN result.value :
              LET abs == result.value[k]
              IN  /\ Trim(abs.name) # <<>>
                  /\ Trim(abs.description) # <<>>
                  /\ abs.fileIndices # <<>>
                  /\ \A j \in DOMAIN abs.fileIndices :
                        /\ IsInteger(abs.fileIndices[j])
                        /\ ToInt(abs.fileIndices[j]) \in 0..(Len(filesData) - 1)

\* an invalid file index: of the wrong type, not numeric, or out of [0, N-1]
InvalidFileIndex(v, N) ==
    \/ TypeOf(v) \notin {"number", "string"}
    \/ TypeOf(v) = "number" /\ (v.nan \/ v.h < 0 \/ v.h > FromInt(N - 1))
    \/ TypeOf(v) = "string"
          /\ (v.s = <<>> \/ ~IsDigit(Head(v.s)) \/ DecimalValue(LeadingDigits(v.s)) > N - 1)

\* the number a valid file index stands for
FileIndexOf(v) ==
    IF TypeOf(v) = "number" THEN v.h ELSE FromInt(DecimalValue(LeadingDigits(v.s)))

IsText(v) == TypeOf(v) = "string" /\ \E k \in DOMAIN v.s : ~IsSpace(v.s[k])

\* a raw item that passes validation
ItemPasses(item, N) ==
    /\ item.obj
    /\ IsText(item.name)
    /\ IsText(item.description)
    /\ item.fiIsArray
    /\ item.file_indices # <<>>
    /\ \A j \in DOMAIN item.file_indices : ~InvalidFileIndex(item.file_indices[j], N)

\* the raw items that pass validation, in their order, as abstractions
PassingItems(items, N) ==
    LET passing == SelectSeq(items, LAMBDA item : ItemPasses(item, N))
    IN  [k \in DOMAIN passing |->
            Abstraction(Trim(passing[k].name.s), Trim(passing[k].description.s),
                        [j \in DOMAIN passing[k].file_indices
                            |-> FileIndexOf(passing[k].file_indices[j])])]

\* C8: identifyAbstractions returns exactly the raw items that pass
\* validation, in their order; an item with an invalid file index is left
\* out whole, and it neither makes the call throw nor removes another item.
C8_ExactlyPassingItems ==
    IdentifyGotItems
        => result = Returned(PassingItems(llmResponse.items, Len(filesData)))

\* a list whose middle item has one valid and one out-of-range index: the
\* two other items are returned, the middle one is not
C8_Witness ==
    /\ IdentifyGotItems
    /\ Len(filesData) = MaxFiles
    /\ llmResponse.items
         = <<GoodItem(TextA, <<JsNumber(FromInt(0))>>),
             GoodItem(TextA, <<JsNumber(FromInt(0)), JsNumber(FromInt(MaxFiles))>>),
             GoodItem(TextPadded, <<JsString(<<"1">> \o NameSuffix), JsNumber(FromInt(0))>>)>>
    /\ result
         = Returned(<<Abstraction(TextA, <<"d">>, <<FromInt(0)>>),
                      Abstraction(<<"D", "B">>, <<"d">>, <<FromInt(1), FromInt(0)>>)>>)

(***************************************************************************)
(* Stage 2: analyzeRelationships.                                          *)
(***************************************************************************)
\* "No abstractions provided to analyze."
NoAbstractionsSummary ==
    <<"N", "o", " ", "a", "b", "s", "t", "r", "a", "c", "t", "i", "o",
       "n", "s", " ", "p", "r", "o", "v", "i", "d", "e", "d", " ", "t",
       "o", " ", "a", "n", "a", "l", "y", "z", "e", ".">>

\* the for loop over parsedResponse.relationships
RECURSIVE AnalyzeLoop(_, _, _)
AnalyzeLoop(relationships, maxAbsIndex, validatedRelationships) ==
    IF relationships = <<>> THEN validatedRelationships
    ELSE LET rawRel == Head(relationships)
             rest == Tail(relationships)
         IN  IF ~rawRel.obj
             THEN AnalyzeLoop(rest, maxAbsIndex, validatedRelationships)
             ELSE IF MissingOrBlank(rawRel.label)
             THEN AnalyzeLoop(rest, maxAbsIndex, validatedRelationships)
             ELSE IF ~Truthy(rawRel.from_abstraction) \/ ~Truthy(rawRel.to_abstraction)
             THEN AnalyzeLoop(rest, maxAbsIndex, validatedRelationships)
             ELSE LET fromIndex == parseAbstractionRef(rawRel.from_abstraction, maxAbsIndex)
                      toIndex == parseAbstractionRef(rawRel.to_abstraction, maxAbsIndex)
                  IN  IF fromIndex.ok /\ toIndex.ok
                      THEN AnalyzeLoop(rest, maxAbsIndex,
                               Append(validatedRelationships,
                                      Relationship(fromIndex.val, toIndex.val,
                                                   Trim(rawRel.label.s))))
                      ELSE AnalyzeLoop(rest, maxAbsIndex, validatedRelationships)

\* ValidateAnalysis with a missing summary defaulted to the empty text
ValidateAnalysisLenient(abs, response) ==
    IF response.kind = "rejected" THEN Rejected(Error("llm", "none", 0, <<>>))
    ELSE IF response.kind = "badYaml" THEN Rejected(Error("yaml", "none", 0, <<>>))
    ELSE IF response.top = "scalar" THEN Rejected(Error("notObject", "none", 0, <<>>))
    ELSE Returned(ProjectAnalysis(
             IF MissingOrBlank(response.summary) THEN <<>> ELSE Trim(response.summary.s),
             AnalyzeLoop(IF response.listed THEN response.items ELSE <<>>,
                         Len(abs) - 1, <<>>)))

\* the validation of the parsed LLM answer, after the LLM call.  A scalar or
\* null is not an object; a YAML list or a map without summary is an object
\* whose summary is undefined.
ValidateAnalysis(abs, response) ==
    IF response.kind = "rejected" THEN Rejected(Error("llm", "none", 0, <<>>))
    ELSE IF response.kind = "badYaml" THEN Rejected(Error("yaml", "none", 0, <<>>))
    ELSE IF response.top = "scalar" THEN Rejected(Error("notObject", "none", 0, <<>>))
    ELSE IF MissingOrBlank(response.summary)
    THEN Rejected(Error("summary", "none", 0, <<>>))
    ELSE Returned(ProjectAnalysis(
             Trim(response.summary.s),
             AnalyzeLoop(IF response.listed THEN response.items ELSE <<>>,
                         Len(abs) - 1, <<>>)))

\* AnalyzeRelationships that reverses the array of abstractions in place
AnalyzeRelationshipsReverses ==
    /\ stage = "analyzeRelationships"
    /\ pc = "idle"
    /\ IF Len(abstractions) = 0
       THEN /\ result' = Returned(ProjectAnalysis(NoAbstractionsSummary, <<>>))
            /\ UNCHANGED <<llmResponse, llmCalls>>
       ELSE \E response \in AnalyzeResponses :
            /\ llmCalls' = llmCalls + 1
            /\ llmResponse' = response
            /\ result' = ValidateAnalysis(abstractions, response)
    /\ pc' = "done"
    /\ abstractions' = [k \in DOMAIN abstractions |->
                            abstractions[Len(abstractions) + 1 - k]]
    /\ UNCHANGED <<stage, filesData, chapterOrder, rawRef, maxIndex, sanitizeCall,
                   projectAnalysis, handlerVars, cacheVars, rawText, writeVars>>

\* analyzeRelationships(abstractions, filesData, projectName, llmProvider)
AnalyzeRelationships ==
    /\ stage = "analyzeRelationships"
    /\ pc = "idle"
    /\ IF Len(abstractions) = 0
       THEN /\ result' = Returned(ProjectAnalysis(NoAbstractionsSummary, <<>>))
            /\ UNCHANGED <<llmResponse, llmCalls>>
       ELSE \E response \in AnalyzeResponses :
            /\ llmCalls' = llmCalls + 1
            /\ llmResponse' = response
            /\ result' = ValidateAnalysis(abstractions, response)
    /\ pc' = "done"
    /\ UNCHANGED <<args, handlerVars, cacheVars, rawText, writeVars>>

InitAnalyze ==
    /\ stage = "analyzeRelationships"
    /\ pc = "idle"
    /\ filesData = FilesOfLen(1)
    /\ abstractions \in {AbstractionsOfLen(M) : M \in 0..MaxAbstractions}
    /\ chapterOrder = <<>>
    /\ rawRef = JsUndefined
    /\ maxIndex = 0
    /\ llmResponse = NoResponse
    /\ llmCalls = 0
    /\ result = Pending
    /\ WriteIdle
    /\ sanitizeCall = NoCall
    /\ RequestIdle
    /\ rawText = NoText
    /\ projectAnalysis = NoAnalysis
    /\ CacheIdle

NextAnalyze == AnalyzeRelationships

SpecAnalyze == InitAnalyze /\ [][NextAnalyze]_vars

(***************************************************************************)
(* Properties of stage 2.                                                  *)
(***************************************************************************)
AnalyzeDone == stage = "analyzeRelationships" /\ pc = "done"

\* C10: every ProjectAnalysis returned over M >= 1 abstractions has a
\* non-empty summary, and every relationship in it has from and to that are
\* integers of [0, M-1] and a non-empty label.
C10_ReturnedAnalysisValid ==
    (AnalyzeDone /\ Len(abstractions) >= 1 /\ result.status = "returned")
        => /\ result.value.summary # <<>>
           /\ \A k \in DOMAIN result.value.relationships :
                 LET rel == result.value.relationships[k]
                     M == Len(abstractions)
                 IN  /\ IsInteger(rel.from) /\ ToInt(rel.from) \in 0..(M - 1)
                     /\ IsInteger(rel.to) /\ ToInt(rel.to) \in 0..(M - 1)
                     /\ rel.label # <<>>

\* the LLM answered with a map (or a list) and the call has settled
AnalyzeGotObject ==
    /\ AnalyzeDone
    /\ Len(abstractions) >= 1
    /\ llmResponse.kind = "value"
    /\ llmResponse.top # "scalar"

\* a raw relationship that has a non-empty label and two endpoints that the
\* reference parser resolves against M - 1
RelResolves(rawRel, M) ==
    /\ rawRel.obj
    /\ IsText(rawRel.label)
    /\ parseAbstractionRef(rawRel.from_abstraction, M - 1).ok
    /\ parseAbstractionRef(rawRel.to_abstraction, M - 1).ok

\* the raw relationships that resolve, in their order, as relationships
ResolvingRels(rels, M) ==
    LET passing == SelectSeq(rels, LAMBDA rawRel : RelResolves(rawRel, M))
    IN  [k \in DOMAIN passing |->
            Relationship(parseAbstractionRef(passing[k].from_abstraction, M - 1).val,
                         parseAbstractionRef(passing[k].to_abstraction, M - 1).val,
                         Trim(passing[k].label.s))]

\* C11: the relationships returned by analyzeRelationships are exactly, in
\* order, the raw relationships with a non-empty label whose two endpoints
\* resolve through the reference parser against M - 1, the native integer 0
\* included; self-loops and repeated edges are kept.
C11_ExactlyResolvingRelationships ==
    (AnalyzeGotObject /\ llmResponse.listed /\ result.status = "returned")
        => result.value.relationships
              = ResolvingRels(llmResponse.items, Len(abstractions))

\* C12: a missing, non-string or blank summary makes analyzeRelationships
\* reject, with no partial analysis, whatever the relationships are; a valid
\* summary with relationships missing or not an array is returned with that
\* summary, trimmed, and no relationships.
C12_SummaryFatalRelationshipsNot ==
    AnalyzeGotObject
        => /\ ~IsText(llmResponse.summary)
              => (result.status = "rejected" /\ result.value = <<>>)
           /\ (IsText(llmResponse.summary) /\ ~llmResponse.listed)
              => result = Returned(ProjectAnalysis(Trim(llmResponse.summary.s), <<>>))

\* a blank summary over one fully valid relationship is rejected
C12_Witness ==
    /\ AnalyzeGotObject
    /\ llmResponse.summary = JsString(TextBlank)
    /\ llmResponse.listed
    /\ llmResponse.items
         = <<RawRel(TRUE, JsString(TextPadded), JsString(<<"0">>), JsString(<<"0">>))>>
    /\ result.status = "rejected"

(***************************************************************************)
(* Stage 3: orderChapters.                                                 *)
(***************************************************************************)
\* OrderLoop with a repeated index dropped instead of thrown
RECURSIVE OrderLoopDedup(_, _, _, _)
OrderLoopDedup(rawOrderedIndices, maxAbsIndex, validatedOrderedIndices, receivedIndicesSet) ==
    IF rawOrderedIndices = <<>>
    THEN [ok |-> TRUE, validated |-> validatedOrderedIndices,
          received |-> receivedIndicesSet, error |-> NoError]
    ELSE LET p == parseAbstractionRefForOrder(Head(rawOrderedIndices), maxAbsIndex)
         IN  IF ~p.ok
             THEN [ok |-> FALSE, validated |-> validatedOrderedIndices,
                   received |-> receivedIndicesSet,
                   error |-> Error("invalidIndex", p.err, p.val, <<>>)]
             ELSE IF p.val \in receivedIndicesSet
             THEN OrderLoopDedup(Tail(rawOrderedIndices), maxAbsIndex,
                                 validatedOrderedIndices, receivedIndicesSet)
             ELSE OrderLoopDedup(Tail(rawOrderedIndices), maxAbsIndex,
                                 Append(validatedOrderedIndices, p.val),
                                 receivedIndicesSet \cup {p.val})

\* OrderLoop with unshift in place of push
RECURSIVE OrderLoopUnshift(_, _, _, _)
OrderLoopUnshift(rawOrderedIndices, maxAbsIndex, validatedOrderedIndices, receivedIndicesSet) ==
    IF rawOrderedIndices = <<>>
    THEN [ok |-> TRUE, validated |-> validatedOrderedIndices,
          received |-> receivedIndicesSet, error |-> NoError]
    ELSE LET p == parseAbstractionRefForOrder(Head(rawOrderedIndices), maxAbsIndex)
         IN  IF ~p.ok
             THEN [ok |-> FALSE, validated |-> validatedOrderedIndices,
                   received |-> receivedIndicesSet,
                   error |-> Error("invalidIndex", p.err, p.val, <<>>)]
             ELSE IF p.val \in receivedIndicesSet
             THEN [ok |-> FALSE, validated |-> validatedOrderedIndices,
                   received |-> receivedIndicesSet,
                   error |-> Error("invalidIndex", "duplicate", p.val, <<>>)]
             ELSE OrderLoopUnshift(Tail(rawOrderedIndices), maxAbsIndex,
                                   <<p.val>> \o validatedOrderedIndices,
                                   receivedIndicesSet \cup {p.val})

\* the for loop over rawOrderedIndices: the first element that does not
\* resolve, or that resolves to an index already received, throws
RECURSIVE OrderLoop(_, _, _, _)
OrderLoop(rawOrderedIndices, maxAbsIndex, validatedOrderedIndices, receivedIndicesSet) ==
    IF rawOrderedIndices = <<>>
    THEN [ok |-> TRUE, validated |-> validatedOrderedIndices,
          received |-> receivedIndicesSet, error |-> NoError]
    ELSE LET p == parseAbstractionRefForOrder(Head(rawOrderedIndices), maxAbsIndex)
         IN  IF ~p.ok
             THEN [ok |-> FALSE, validated |-> validatedOrderedIndices,
                   received |-> receivedIndicesSet,
                   error |-> Error("invalidIndex", p.err, p.val, <<>>)]
             ELSE IF p.val \in receivedIndicesSet
             THEN [ok |-> FALSE, validated |-> validatedOrderedIndices,
                   received |-> receivedIndicesSet,
                   error |-> Error("invalidIndex", "duplicate", p.val, <<>>)]
             ELSE OrderLoop(Tail(rawOrderedIndices), maxAbsIndex,
                            Append(validatedOrderedIndices, p.val),
                            receivedIndicesSet \cup {p.val})

\* [...expectedIndices].filter(idx => !receivedIndicesSet.has(idx))
MissingIndices(M, receivedIndicesSet) ==
    SelectSeq([i \in 1..M |-> FromInt(i - 1)], LAMBDA idx : idx \notin receivedIndicesSet)

\* the validation of the parsed LLM answer, after the LLM call
ValidateOrder(abs, response) ==
    IF response.kind = "rejected" THEN Rejected(Error("llm", "none", 0, <<>>))
    ELSE IF response.kind = "badYaml" THEN Rejected(Error("yaml", "none", 0, <<>>))
    ELSE IF response.top # "array" THEN Rejected(Error("notArray", "none", 0, <<>>))
    ELSE LET loop == OrderLoop(response.items, Len(abs) - 1, <<>>, {})
         IN  IF ~loop.ok THEN Rejected(loop.error)
             ELSE IF Len(loop.validated) # Len(abs)
             THEN Rejected(Error("incomplete", "none", Len(loop.validated),
                                 MissingIndices(Len(abs), loop.received)))
             ELSE Returned(loop.validated)

\* OrderChapters without the early return for no abstractions
OrderChaptersAlwaysCalls ==
    /\ stage = "orderChapters"
    /\ pc = "idle"
    /\ \E response \in OrderResponses :
          /\ llmCalls' = llmCalls + 1
          /\ llmResponse' = response
          /\ result' = ValidateOrder(abstractions, response)
    /\ pc' = "done"
    /\ UNCHANGED <<args, handlerVars, cacheVars, rawText, writeVars>>

\* orderChapters(abstractions, projectAnalysis, projectName, llmProvider)
OrderChapters ==
    /\ stage = "orderChapters"
    /\ pc = "idle"
    /\ IF Len(abstractions) = 0
       THEN /\ result' = Returned(<<>>)
            /\ UNCHANGED <<llmResponse, llmCalls>>
       ELSE \E response \in OrderResponses :
            /\ llmCalls' = llmCalls + 1
            /\ llmResponse' = response
            /\ result' = ValidateOrder(abstractions, response)
    /\ pc' = "done"
    /\ UNCHANGED <<args, handlerVars, cacheVars, rawText, writeVars>>

InitOrder ==
    /\ stage = "orderChapters"
    /\ pc = "idle"
    /\ filesData = <<>>
    /\ abstractions \in {AbstractionsOfLen(M) : M \in 0..MaxAbstractions}
    /\ chapterOrder = <<>>
    /\ rawRef = JsUndefined
    /\ maxIndex = 0
    /\ llmResponse = NoResponse
    /\ llmCalls = 0
    /\ result = Pending
    /\ WriteIdle
    /\ sanitizeCall = NoCall
    /\ RequestIdle
    /\ rawText = NoText
    /\ projectAnalysis \in OrderAnalyses
    /\ CacheIdle

NextOrder == OrderChapters

SpecOrder == InitOrder /\ [][NextOrder]_vars

(***************************************************************************)
(* Properties of stage 3.                                                  *)
(***************************************************************************)
Range(s) == {s[k] : k \in DOMAIN s}

OrderDone == stage = "orderChapters" /\ pc = "done"

\* the stage received a parsed YAML array from the model
OrderGotArray == OrderDone /\ llmResponse.kind = "value" /\ llmResponse.top = "array"

\* v is a permutation of 0..M-1: M elements, integers of [0, M-1], each once
IsPermutation(v, M) ==
    /\ Len(v) = M
    /\ \A k \in DOMAIN v : IsInteger(v[k]) /\ ToInt(v[k]) \in 0..(M - 1)
    /\ \A i \in 0..(M - 1) : Cardinality({k \in DOMAIN v : v[k] = FromInt(i)}) = 1

\* C1: whenever orderChapters returns for M >= 1 abstractions, the returned
\* array is a permutation of 0..M-1, whatever the parsed list contains.
C1_ReturnedOrderIsPermutation ==
    (OrderDone /\ Len(abstractions) >= 1 /\ result.status = "returned")
        => IsPermutation(result.value, Len(abstractions))

\* the indices of 0..M-1 that no element of the list resolves to
AbsentIndices(items, M) ==
    {i \in 0..(M - 1) :
        \A k \in DOMAIN items :
            LET p == parseAbstractionRefForOrder(items[k], M - 1)
            IN  ~(p.ok /\ p.val = FromInt(i))}

\* C2: whenever the list omits an index of 0..M-1, orderChapters rejects, and
\* the incompleteness error names exactly the absent indices.
C2_OmissionIsRejected ==
    (OrderGotArray /\ Len(abstractions) >= 1
       /\ AbsentIndices(llmResponse.items, Len(abstractions)) # {})
        => /\ result.status = "rejected"
           /\ result.error.kind = "incomplete"
                => Range(result.error.missing)
                     = {FromInt(i) : i \in AbsentIndices(llmResponse.items, Len(abstractions))}

\* element k of the list resolves to the index an earlier element resolved to
Repeats(items, M, k) ==
    LET p == parseAbstractionRefForOrder(items[k], M - 1)
    IN  /\ p.ok
        /\ \E j \in 1..(k - 1) :
              LET q == parseAbstractionRefForOrder(items[j], M - 1)
              IN  q.ok /\ q.val = p.val

HasRepeat(items, M) == \E k \in DOMAIN items : Repeats(items, M, k)

FirstRepeat(items, M) ==
    CHOOSE k \in DOMAIN items :
        Repeats(items, M, k) /\ \A j \in 1..(k - 1) : ~Repeats(items, M, j)

NamesDuplicate(items, M) ==
    /\ result.status = "rejected"
    /\ result.error.kind = "invalidIndex"
    /\ result.error.cause = "duplicate"
    /\ result.error.index
         = parseAbstractionRefForOrder(items[FirstRepeat(items, M)], M - 1).val

\* C3 as stated: a list that contains the same index twice is rejected with
\* an error naming the index of the first repeating element.
C3_RepeatNamedAlways ==
    (OrderGotArray /\ Len(abstractions) >= 1
       /\ HasRepeat(llmResponse.items, Len(abstractions)))
        => NamesDuplicate(llmResponse.items, Len(abstractions))

\* every element before position k resolves
ResolveBefore(items, M, k) ==
    \A j \in 1..(k - 1) : parseAbstractionRefForOrder(items[j], M - 1).ok

\* C3 amended: a list that contains the same index twice is always rejected;
\* the error names the index of the first repeating element when every
\* element before it resolves, and otherwise it is the error of the first
\* element that does not resolve.
C3_RepeatRejected ==
    (OrderGotArray /\ Len(abstractions) >= 1
       /\ HasRepeat(llmResponse.items, Len(abstractions)))
        => LET items == llmResponse.items
               M == Len(abstractions)
           IN  /\ result.status = "rejected"
               /\ IF ResolveBefore(items, M, FirstRepeat(items, M))
                  THEN NamesDuplicate(items, M)
                  ELSE /\ result.error.kind = "invalidIndex"
                       /\ result.error.cause \in {"format", "type", "bounds"}

\* the same index written as a number and as "i # Name" later in the list
C3_Witness ==
    /\ OrderGotArray
    /\ Len(abstractions) = 2
    /\ Len(llmResponse.items) = 3
    /\ llmResponse.items[1] = JsNumber(FromInt(1))
    /\ llmResponse.items[2] = JsNumber(FromInt(0))
    /\ llmResponse.items[3] = JsString(<<"0">> \o NameSuffix)
    /\ result.status = "rejected"
    /\ result.error.cause = "duplicate"
    /\ result.error.index = FromInt(0)

\* the index a reference written in an accepted form stands for
IsAcceptedForm(raw, M) == \E i \in 0..(M - 1) : raw \in RefForms(i)
DenotedIndex(raw, M) == CHOOSE i \in 0..(M - 1) : raw \in RefForms(i)

\* C4: a permutation of 0..M-1, each element in any accepted form, is
\* returned as the same integers in the same order.
C4_PermutationAcceptedUnchanged ==
    (OrderGotArray /\ Len(abstractions) >= 1
       /\ \A k \in DOMAIN llmResponse.items :
             IsAcceptedForm(llmResponse.items[k], Len(abstractions)))
        => LET M == Len(abstractions)
               p == [k \in DOMAIN llmResponse.items
                       |-> FromInt(DenotedIndex(llmResponse.items[k], M))]
           IN  IsPermutation(p, M) => result = Returned(p)

\* the order 2, 0, 1 in three different forms is returned as [2, 0, 1]
C4_Witness ==
    /\ OrderGotArray
    /\ Len(abstractions) = 3
    /\ llmResponse.items
         = <<JsString(<<"2">> \o NameSuffix), JsNumber(FromInt(0)), JsString(<<"1">>)>>
    /\ result = Returned(<<FromInt(2), FromInt(0), FromInt(1)>>)

\* a reference that stands for an index of [0, M-1]: an integer of the
\* range, or a string whose leading digits give one
ResolvableRef(raw, M) ==
    \/ TypeOf(raw) = "number" /\ ~raw.nan /\ IsInteger(raw.h)
          /\ ToInt(raw.h) \in 0..(M - 1)
    \/ TypeOf(raw) = "string" /\ raw.s # <<>> /\ IsDigit(Head(raw.s))
          /\ DecimalValue(LeadingDigits(raw.s)) \in 0..(M - 1)

\* C13: orderChapters repairs nothing: it rejects when the parsed top-level
\* value is not an array, also for M = 1 and a single valid index, and it
\* rejects when any one element is unresolvable or out of [0, M-1], whatever
\* the other elements are.
C13_NoRepairOfOrder ==
    (OrderDone /\ Len(abstractions) >= 1 /\ llmResponse.kind = "value")
        => /\ llmResponse.top # "array" => result.status = "rejected"
           /\ (/\ llmResponse.top = "array"
               /\ \E k \in DOMAIN llmResponse.items :
                     ~ResolvableRef(llmResponse.items[k], Len(abstractions)))
              => result.status = "rejected"

(***************************************************************************)
(* Stage 4: writeChapters.                                                 *)
(***************************************************************************)
\* chapterContent.substring(0, 500)
DigestLimit == 500

\* sanitizeFilename without the substitution of "chapter"
sanitizeFilenameNoDefault(name, chapterNum) ==
    LET prefix == PadStart2(ToDecimal(chapterNum))
        trimmedName == Trim(name)
        sanitized == StripSpecial(ReplaceSpaceRuns(ToLowerCase(trimmedName)))
    IN  prefix \o <<"_">> \o sanitized \o <<".", "m", "d">>

sanitizeFilename(name, chapterNum) ==
    LET prefix == PadStart2(ToDecimal(chapterNum))
        trimmedName == Trim(name)
        sanitized == StripSpecial(ReplaceSpaceRuns(ToLowerCase(trimmedName)))
    IN  prefix \o <<"_">>
            \o (IF StripUnderscores(sanitized) = <<>> THEN <<"c", "h", "a", "p", "t", "e", "r">> ELSE sanitized)
            \o <<".", "m", "d">>

ChapterLinkInfo(num, name, filename) == [num |-> num, name |-> name, filename |-> filename]
NoLink == ChapterLinkInfo(0, <<>>, <<>>)

ChapterOutput(chapterNumber, abstractionIndex, title, content, filename) ==
    [chapterNumber |-> chapterNumber, abstractionIndex |-> abstractionIndex,
     title |-> title, content |-> content, filename |-> filename]

\* abstractions[absIndex] is defined
HasAbstraction(abs, absIndex) ==
    IsInteger(absIndex) /\ ToInt(absIndex) >= 0 /\ ToInt(absIndex) < Len(abs)

\* abstractions[absIndex]?.name || `Unknown Abstraction ${absIndex}`
LinkName(abs, absIndex) ==
    IF HasAbstraction(abs, absIndex) /\ abs[ToInt(absIndex) + 1].name # <<>>
    THEN abs[ToInt(absIndex) + 1].name
    ELSE <<"U", "n", "k", "n", "o", "w", "n", " ", "A", "b", "s", "t", "r", "a", "c", "t", "i", "o", "n", " ">> \o NumberToString(absIndex)

\* chapterOrder.map((absIndex, i) => ({num, name, filename}))
chapterLinkInfos(order, abs) ==
    [k \in DOMAIN order |->
        ChapterLinkInfo(k, LinkName(abs, order[k]),
                        sanitizeFilename(LinkName(abs, order[k]), k))]

\* chapterFilenamesMap.get(absIndex): the map is filled in chapterOrder
\* sequence, so a later position with the same index replaces an earlier one
chapterFilenamesMapGet(order, abs, absIndex) ==
    LET last == CHOOSE k \in DOMAIN order :
                    order[k] = absIndex /\ \A j \in DOMAIN order : order[j] = absIndex => j <= k
    IN  chapterLinkInfos(order, abs)[last]

\* the variable parts of the prompt of the chapter at position i (from 0):
\* the full chapter listing, the digests of the chapters written so far and
\* the links to the previous and the next chapter
Prompt(order, abs, i, chaptersWrittenSoFarSummary) ==
    [chapterNum |-> i + 1,
     listing |-> chapterLinkInfos(order, abs),
     previous |-> chaptersWrittenSoFarSummary,
     prevChapterLink |-> IF i > 0 THEN chapterLinkInfos(order, abs)[i] ELSE NoLink,
     nextChapterLink |-> IF i < Len(order) - 1 THEN chapterLinkInfos(order, abs)[i + 2]
                         ELSE NoLink]

\* EnsureHeading that tests the text as it came, not trimmed
EnsureHeadingUntrimmed(chapterContent, chapterNum, abstractionName) ==
    IF StartsWithHash(chapterContent) THEN chapterContent
    ELSE <<"#", " ", "C", "h", "a", "p", "t", "e", "r", " ">> \o ToDecimal(chapterNum) \o <<":", " ">> \o abstractionName
             \o <<"\n", "\n">> \o chapterContent

\* `# Chapter ${chapterNum}: ${abstractionName}\n\n${chapterContent}` unless
\* the trimmed text starts with '#'
EnsureHeading(chapterContent, chapterNum, abstractionName) ==
    IF StartsWithHash(Trim(chapterContent)) THEN chapterContent
    ELSE <<"#", " ", "C", "h", "a", "p", "t", "e", "r", " ">> \o ToDecimal(chapterNum) \o <<":", " ">> \o abstractionName
             \o <<"\n", "\n">> \o chapterContent

\* Digest that keeps the whole chapter
DigestUntruncated(chapterNum, abstractionName, chapterContent) ==
    [chapterNum |-> chapterNum, name |-> abstractionName, excerpt |-> chapterContent]

\* `## Summary of Chapter ${chapterNum}: ${abstractionName}\n${...}...`
Digest(chapterNum, abstractionName, chapterContent) ==
    [chapterNum |-> chapterNum, name |-> abstractionName,
     excerpt |-> SubSeq(chapterContent, 1,
                        IF Len(chapterContent) < DigestLimit THEN Len(chapterContent)
                        ELSE DigestLimit)]

\* writeChapters(chapterOrder, abstractions, filesData, ...) up to the loop:
\* the two early returns
WriteChaptersBegin ==
    /\ stage = "writeChapters"
    /\ pc = "idle"
    /\ IF Len(chapterOrder) = 0 \/ Len(abstractions) = 0
       THEN /\ result' = Returned(<<>>)
            /\ pc' = "done"
       ELSE /\ pc' = "loop"
            /\ UNCHANGED result
    /\ UNCHANGED <<args, handlerVars, cacheVars, rawText, llmResponse, llmCalls, writeVars>>

\* if (!currentAbstraction) continue
WriteChapterSkip ==
    /\ stage = "writeChapters"
    /\ pc = "loop"
    /\ pos < Len(chapterOrder)
    /\ ~HasAbstraction(abstractions, chapterOrder[pos + 1])
    /\ pos' = pos + 1
    /\ UNCHANGED <<args, handlerVars, cacheVars, rawText, pc, llmResponse, llmCalls, result, utilCalls, written, outputs,
                   prompts>>

\* let chapterContent = await callLlm(prompt, { useCache }).  The file does
\* not import callLlm: where the name is unbound the statement throws a
\* ReferenceError and no call is issued; where it is bound to callLlm of
\* utils/llm the call resolves or rejects.
WriteChapterCallLlm ==
    /\ stage = "writeChapters"
    /\ pc = "loop"
    /\ pos < Len(chapterOrder)
    /\ HasAbstraction(abstractions, chapterOrder[pos + 1])
    /\ \E outcome \in {"unbound", "resolved", "rejected"} :
          /\ utilCalls' = IF outcome = "unbound" THEN utilCalls ELSE utilCalls + 1
          /\ IF outcome = "resolved"
             THEN /\ pc' = "generate"
                  /\ UNCHANGED result
             ELSE /\ pc' = "done"
                  /\ result' = Rejected(Error(IF outcome = "unbound" THEN "reference"
                                              ELSE "llm", "none", pos + 1, <<>>))
    /\ UNCHANGED <<args, handlerVars, cacheVars, rawText, llmResponse, llmCalls, pos, written, outputs, prompts>>

\* WriteChapterGenerate that answers a rejected call with the chapters
\* written so far
WriteChapterGeneratePartial ==
    /\ stage = "writeChapters"
    /\ pc = "generate"
    /\ LET abstractionIndex == chapterOrder[pos + 1]
           currentAbstraction == abstractions[ToInt(abstractionIndex) + 1]
           chapterNum == pos + 1
           prompt == Prompt(chapterOrder, abstractions, pos, written)
       IN  \E response \in ChapterResponses :
             /\ llmCalls' = llmCalls + 1
             /\ llmResponse' = response
             /\ prompts' = Append(prompts, prompt)
             /\ IF response.kind = "rejected"
                THEN /\ result' = Returned(outputs)
                     /\ pc' = "done"
                     /\ UNCHANGED <<pos, written, outputs>>
                ELSE LET chapterContent ==
                             EnsureHeading(response.scalar.s, chapterNum,
                                           currentAbstraction.name)
                     IN  /\ written' = Append(written,
                                 Digest(chapterNum, currentAbstraction.name, chapterContent))
                         /\ outputs' = Append(outputs,
                                 ChapterOutput(chapterNum, abstractionIndex,
                                     currentAbstraction.name, chapterContent,
                                     chapterFilenamesMapGet(chapterOrder, abstractions,
                                                            abstractionIndex).filename))
                         /\ pos' = pos + 1
                         /\ pc' = "loop"
                         /\ UNCHANGED result
    /\ UNCHANGED <<args, handlerVars, cacheVars, rawText, utilCalls>>

\* let chapterContent = await llmProvider.generateContent(prompt, ...), the
\* heading repair, and the two pushes
WriteChapterGenerate ==
    /\ stage = "writeChapters"
    /\ pc = "generate"
    /\ LET abstractionIndex == chapterOrder[pos + 1]
           currentAbstraction == abstractions[ToInt(abstractionIndex) + 1]
           chapterNum == pos + 1
           prompt == Prompt(chapterOrder, abstractions, pos, written)
       IN  \E response \in ChapterResponses :
             /\ llmCalls' = llmCalls + 1
             /\ llmResponse' = response
             /\ prompts' = Append(prompts, prompt)
             /\ IF response.kind = "rejected"
                THEN /\ result' = Rejected(Error("llm", "none", chapterNum, <<>>))
                     /\ pc' = "done"
                     /\ UNCHANGED <<pos, written, outputs>>
                ELSE LET chapterContent ==
                             EnsureHeading(response.scalar.s, chapterNum,
                                           currentAbstraction.name)
                     IN  /\ written' = Append(written,
                                 Digest(chapterNum, currentAbstraction.name, chapterContent))
                         /\ outputs' = Append(outputs,
                                 ChapterOutput(chapterNum, abstractionIndex,
                                     currentAbstraction.name, chapterContent,
                                     chapterFilenamesMapGet(chapterOrder, abstractions,
                                                            abstractionIndex).filename))
                         /\ pos' = pos + 1
                         /\ pc' = "loop"
                         /\ UNCHANGED result
    /\ UNCHANGED <<args, handlerVars, cacheVars, rawText, utilCalls>>

\* WriteChaptersReturn with the chapters renumbered 1, 2, ... over the gaps
WriteChaptersReturnRenumbered ==
    /\ stage = "writeChapters"
    /\ pc = "loop"
    /\ pos = Len(chapterOrder)
    /\ result' = Returned([k \in DOMAIN outputs |-> [outputs[k] EXCEPT !.chapterNumber = k]])
    /\ pc' = "done"
    /\ UNCHANGED <<args, handlerVars, cacheVars, rawText, llmResponse, llmCalls, writeVars>>

\* return allChapterOutputs
WriteChaptersReturn ==
    /\ stage = "writeChapters"
    /\ pc = "loop"
    /\ pos = Len(chapterOrder)
    /\ result' = Returned(outputs)
    /\ pc' = "done"
    /\ UNCHANGED <<args, handlerVars, cacheVars, rawText, llmResponse, llmCalls, writeVars>>

InitWrite ==
    /\ stage = "writeChapters"
    /\ pc = "idle"
    /\ filesData = FilesOfLen(1)
    /\ abstractions \in WriteAbstractions
    /\ chapterOrder \in SeqsUpTo(WriteOrderPool, MaxChapters)
    /\ rawRef = JsUndefined
    /\ maxIndex = 0
    /\ llmResponse = NoResponse
    /\ llmCalls = 0
    /\ result = Pending
    /\ WriteIdle
    /\ sanitizeCall = NoCall
    /\ RequestIdle
    /\ rawText = NoText
    /\ projectAnalysis = NoAnalysis
    /\ CacheIdle

NextWrite ==
    \/ WriteChaptersBegin
    \/ WriteChapterSkip
    \/ WriteChapterCallLlm
    \/ WriteChapterGenerate
    \/ WriteChaptersReturn

SpecWrite == InitWrite /\ [][NextWrite]_vars

(***************************************************************************)
(* Properties of stage 4.                                                  *)
(***************************************************************************)
WriteDone == stage = "writeChapters" /\ pc = "done"
WriteReturned == WriteDone /\ result.status = "returned"

\* the positions of chapterOrder (from 1) whose index exists in abstractions
ResolvablePositions(order, abs) ==
    {k \in DOMAIN order : HasAbstraction(abs, order[k])}

\* the j-th smallest element of a set of positions
NthPosition(S, j) == CHOOSE k \in S : Cardinality({i \in S : i <= k}) = j

\* C14: writeChapters returns one ChapterOutput for each position of
\* chapterOrder whose index exists in abstractions, in chapterOrder sequence,
\* with chapterNumber the position, abstractionIndex the index there and
\* title the name of that abstraction; a position whose index does not exist
\* gives no output and the later chapter numbers keep the gap.
C14_OneOutputPerResolvablePosition ==
    WriteReturned
        => LET S == ResolvablePositions(chapterOrder, abstractions)
           IN  /\ Len(result.value) = Cardinality(S)
               /\ \A j \in DOMAIN result.value :
                     LET k == NthPosition(S, j)
                         c == result.value[j]
                     IN  /\ c.chapterNumber = k
                         /\ c.abstractionIndex = chapterOrder[k]
                         /\ c.title = abstractions[ToInt(chapterOrder[k]) + 1].name

\* the order [MaxWriteAbstractions, 0]: position 1 has no abstraction, and
\* the one chapter returned is chapter 2
C14_Witness ==
    /\ WriteReturned
    /\ chapterOrder = <<FromInt(MaxWriteAbstractions), FromInt(0)>>
    /\ Len(result.value) = 1
    /\ result.value[1].chapterNumber = 2
    /\ result.value[1].abstractionIndex = FromInt(0)

\* C15: writeChapters issues exactly one LLM call for each position whose
\* abstraction exists and none for a skipped position, so that the number of
\* LLM calls equals the number of returned chapters.
C15_OneCallPerChapter ==
    WriteReturned => utilCalls + llmCalls = Len(result.value)

\* C16: the trimmed content of every returned chapter begins with '#': a raw
\* text that, trimmed, begins with '#' is the content unchanged, and any
\* other raw text is the content after "# Chapter {chapterNumber}: {name}"
\* and a blank line; a text without a heading does not make the call reject.
C16_HeadingEnsured ==
    [][(WriteChapterGenerate /\ llmResponse'.kind = "value")
          => LET raw == llmResponse'.scalar.s
                 c == outputs'[Len(outputs')]
             IN  /\ result' = result
                 /\ Len(outputs') = Len(outputs) + 1
                 /\ Head(Trim(c.content)) = "#"
                 /\ (Trim(raw) # <<>> /\ Head(Trim(raw)) = "#") => c.content = raw
                 /\ (Trim(raw) = <<>> \/ Head(Trim(raw)) # "#")
                       => c.content
                            = <<"#", " ", "C", "h", "a", "p", "t", "e", "r", " ">>
                                \o ToDecimal(c.chapterNumber) \o <<":", " ">> \o c.title
                                \o <<"\n", "\n">> \o raw]_vars

\* a chapter whose raw text has white space before its heading, returned as
\* it came, and a chapter whose raw text has no heading, returned with one
C16_Witness ==
    /\ WriteReturned
    /\ Len(result.value) = 2
    /\ result.value[1].content = <<" ", "#", "T">>
    /\ result.value[2].content
         = <<"#", " ", "C", "h", "a", "p", "t", "e", "r", " ", "2", ":", " ">>
              \o result.value[2].title \o <<"\n", "\n", "t", "#">>

\* C17: the filename of every returned chapter is sanitizeFilename of its
\* title and its chapter number, and it is the filename the chapter listing
\* gave to that chapter number, also when chapterOrder names one abstraction
\* at two positions.
C17_FilenameOfTitleAndNumber ==
    WriteReturned
        => \A j \in DOMAIN result.value :
              LET c == result.value[j]
              IN  /\ c.filename = sanitizeFilename(c.title, c.chapterNumber)
                  /\ c.filename
                       = chapterLinkInfos(chapterOrder, abstractions)[c.chapterNumber].filename

\* C18: the filenames of the chapters returned by one call are pairwise
\* distinct, also for names with the same slug and for a chapterOrder with a
\* repeated index.
C18_FilenamesDistinct ==
    WriteReturned
        => \A j, k \in DOMAIN result.value :
              j # k => result.value[j].filename # result.value[k].filename

\* C30: every filename in the full chapter listing or in the link to the
\* previous or to the next chapter of a prompt that writeChapters sent is
\* the filename of a chapter in the array writeChapters returns, also when
\* chapterOrder has a position whose abstraction does not exist.
C30_NoDanglingChapterLink ==
    WriteReturned
        => LET filenames == {result.value[j].filename : j \in DOMAIN result.value}
           IN  \A k \in DOMAIN prompts :
                  /\ \A l \in DOMAIN prompts[k].listing :
                        prompts[k].listing[l].filename \in filenames
                  /\ prompts[k].prevChapterLink # NoLink
                        => prompts[k].prevChapterLink.filename \in filenames
                  /\ prompts[k].nextChapterLink # NoLink
                        => prompts[k].nextChapterLink.filename \in filenames

\* the digest of a returned or pending chapter output
DigestOf(output) ==
    [chapterNum |-> output.chapterNumber, name |-> output.title,
     excerpt |-> IF Len(output.content) <= DigestLimit THEN output.content
                 ELSE [k \in 1..DigestLimit |-> output.content[k]]]

\* C25: the prompt of the chapter at position i holds one digest for each
\* chapter written at a position below i, in position order, and none for a
\* skipped position or a position from i on; the prompt of the first written
\* chapter holds none; a digest carries the first 500 characters of the
\* chapter's final content, all of it when it is shorter; and the digest of
\* a chapter is in the running context before the next LLM call is issued.
C25_RunningContext ==
    stage = "writeChapters"
        => /\ \A k \in DOMAIN prompts :
                 LET previous == prompts[k].previous
                     i == prompts[k].chapterNum
                 IN  /\ Len(previous) = k - 1
                     /\ \A j \in DOMAIN previous :
                           /\ j \in DOMAIN outputs
                           /\ previous[j] = DigestOf(outputs[j])
                           /\ Len(previous[j].excerpt) <= DigestLimit
                           /\ previous[j].chapterNum < i
                           /\ \A h \in DOMAIN previous :
                                 h < j => previous[h].chapterNum < previous[j].chapterNum
                     /\ {previous[j].chapterNum : j \in DOMAIN previous}
                           = {q \in ResolvablePositions(chapterOrder, abstractions) : q < i}
           /\ pc \in {"loop", "generate"}
                 => /\ Len(written) = Len(outputs)
                    /\ \A j \in DOMAIN outputs : written[j] = DigestOf(outputs[j])

\* two chapters were written, the first longer than 500 characters: the
\* prompt of the second holds its digest of 500 characters
C25_Witness ==
    /\ WriteReturned
    /\ Len(prompts) = 2
    /\ Len(result.value) = 2
    /\ Len(result.value[1].content) > DigestLimit
    /\ Len(prompts[1].previous) = 0
    /\ Len(prompts[2].previous) = 1
    /\ Len(prompts[2].previous[1].excerpt) = DigestLimit

(***************************************************************************)
(* Direct calls of sanitizeFilename.                                       *)
(***************************************************************************)
\* the characters titles are made of: an upper-case letter, a digit, the
\* three marks that are kept, two kinds of white space and a character that
\* is removed
TitleAlphabet == {"A", "1", ".", "-", "_", " ", "\t", "!"}

\* chapter numbers of one, two and three digits
ChapterNums == {1, 9, 10, MaxChapterNum}

SanitizeFilename ==
    /\ stage = "sanitizeFilename"
    /\ pc = "idle"
    /\ result' = Returned(sanitizeFilename(sanitizeCall.name, sanitizeCall.chapterNum))
    /\ pc' = "done"
    /\ UNCHANGED <<args, handlerVars, cacheVars, rawText, llmResponse, llmCalls, writeVars>>

InitSanitize ==
    /\ stage = "sanitizeFilename"
    /\ pc = "idle"
    /\ filesData = <<>>
    /\ abstractions = <<>>
    /\ chapterOrder = <<>>
    /\ rawRef = JsUndefined
    /\ maxIndex = 0
    /\ llmResponse = NoResponse
    /\ llmCalls = 0
    /\ result = Pending
    /\ WriteIdle
    /\ sanitizeCall \in {SanitizeArgs(t, n) : t \in SeqsUpTo(TitleAlphabet, MaxTitleLen),
                                              n \in ChapterNums}
    /\ RequestIdle
    /\ rawText = NoText
    /\ projectAnalysis = NoAnalysis
    /\ CacheIdle

NextSanitize == SanitizeFilename

SpecSanitize == InitSanitize /\ [][NextSanitize]_vars

\* the decimal digits of n >= 1, most significant first
DigitCount(n) == CHOOSE L \in 1..4 : n < 10^L /\ (L = 1 \/ n >= 10^(L - 1))
DecimalDigits(n) ==
    [k \in 1..DigitCount(n) |-> Digits[((n \div 10^(DigitCount(n) - k)) % 10) + 1]]

\* n in decimal, left-padded with '0' to at least two digits
PaddedNumber(n) == IF n < 10 THEN <<"0">> \o DecimalDigits(n) ELSE DecimalDigits(n)

IsWhite(c) == c \in {" ", "\t", "\n"}

\* a character of [a-z0-9_.-]
IsSlugChar(c) == IsLower(c) \/ IsDigit(c) \/ c \in {"_", ".", "-"}

\* the slug of a title: between its first and its last character that is
\* not white space, each run of white space gives one '_' (at the first
\* character of the run), every other character is lowercased and kept if
\* it is of [a-z0-9_.-]
Slug(title) ==
    LET inked == {k \in DOMAIN title : ~IsWhite(title[k])}
    IN  IF inked = {} THEN <<>>
        ELSE LET first == CHOOSE k \in inked : \A j \in inked : k <= j
                 last == CHOOSE k \in inked : \A j \in inked : j <= k
                 image == [k \in 1..(last - first + 1) |->
                             LET c == title[first + k - 1]
                             IN  IF IsWhite(c)
                                 THEN IF IsWhite(title[first + k - 2]) THEN "" ELSE "_"
                                 ELSE IF IsSlugChar(ToLowerChar(c)) THEN ToLowerChar(c)
                                 ELSE ""]
             IN  SelectSeq(image, LAMBDA c : c # "")

\* the reference operator of sanitizeFilename
ReferenceFilename(title, n) ==
    PaddedNumber(n) \o <<"_">>
        \o (IF \A k \in DOMAIN Slug(title) : Slug(title)[k] = "_"
            THEN <<"c", "h", "a", "p", "t", "e", "r">>
            ELSE Slug(title))
        \o <<".", "m", "d">>

SanitizeDone == stage = "sanitizeFilename" /\ pc = "done"

\* C19: sanitizeFilename(title, n) is n in decimal, left-padded with '0' to
\* at least two digits, then '_', then the slug of the title, then ".md",
\* the slug being replaced by "chapter" exactly when it is empty or holds
\* nothing but underscores.
C19_SanitizeEqualsReference ==
    SanitizeDone
        => result = Returned(ReferenceFilename(sanitizeCall.name, sanitizeCall.chapterNum))

\* sanitizeFilename(" A !", 9) is "09_a_.md", and not "09_chapter.md"
C19_Witness ==
    /\ SanitizeDone
    /\ sanitizeCall = SanitizeArgs(<<" ", "A", " ", "!">>, 9)
    /\ result = Returned(<<"0", "9", "_", "a", "_", ".", "m", "d">>)


(***************************************************************************)
(* The handler of POST /generate-tutorial.                                 *)
(***************************************************************************)
\* the calls of the try block, in the order of the source
StageOrder ==
    <<"crawlGitHubFiles", "identifyAbstractions", "analyzeRelationships",
      "orderChapters", "writeChapters", "combineTutorial">>

\* how a call settled: size is the length of the array it resolved to (the
\* files, the abstractions, the order, the chapters, the tutorial files) and
\* order is the chapter order that orderChapters resolved to
StageResolved(size, order) == [status |-> "resolved", size |-> size, order |-> order]
StageRejected == [status |-> "rejected", size |-> 0, order |-> <<>>]

\* the orders orderChapters hands to the request: 0..M-1 and its reverse
AscendingOrder(M) == [k \in 1..M |-> FromInt(k - 1)]
DescendingOrder(M) == [k \in 1..M |-> FromInt(M - k)]

\* the ways the call of a stage settles
StageOutcomes(stageName) ==
    {StageRejected} \cup
    CASE stageName = "crawlGitHubFiles"
            -> {StageResolved(n, <<>>) : n \in 0..MaxFiles}
      [] stageName = "identifyAbstractions"
            -> {StageResolved(m, <<>>) : m \in 0..MaxAbstractions}
      [] stageName = "analyzeRelationships"
            -> {StageResolved(m, <<>>) : m \in 0..MaxItems}
      [] stageName = "orderChapters"
            -> {StageResolved(Len(abstractions), o)
                   : o \in {AscendingOrder(Len(abstractions)),
                            DescendingOrder(Len(abstractions))}}
      [] stageName = "writeChapters"
            -> {StageResolved(c, <<>>) : c \in 0..Len(chapterOrder)}
      [] OTHER
            -> {StageResolved(c, <<>>) : c \in 1..2}

\* the numbers of LLM calls a stage can have issued when it settles: none in
\* the crawl and in combineTutorial, one in stages 1 to 3 (or none, when the
\* stage rejects before its call), and in writeChapters up to two for each
\* position of chapterOrder
StageLlmCalls(stageName, outcome) ==
    CASE stageName \in {"crawlGitHubFiles", "combineTutorial"} -> {0}
      [] stageName = "writeChapters" -> 0..(2 * Len(chapterOrder))
      [] OTHER -> IF outcome.status = "rejected" THEN {0, 1} ELSE {1}

\* AbortStatus without the test for an empty list of abstractions
AbortStatusKeepsGoing(stageName, outcome) ==
    IF outcome.status = "rejected" THEN 500
    ELSE IF stageName = "crawlGitHubFiles" /\ outcome.size = 0 THEN 400
    ELSE 0

\* the status the handler answers with after a call has settled, 0 when it
\* goes on: the catch block, the test for no files and the test for no
\* abstractions
AbortStatus(stageName, outcome) ==
    IF outcome.status = "rejected" THEN 500
    ELSE IF stageName = "crawlGitHubFiles" /\ outcome.size = 0 THEN 400
    ELSE IF stageName = "identifyAbstractions" /\ outcome.size = 0 THEN 500
    ELSE 0

\* the validation of the request body: a 400 answer for an invalid field
HandlerValidate ==
    /\ stage = "generateTutorial"
    /\ pc = "idle"
    /\ \E valid \in BOOLEAN :
          IF valid
          THEN /\ pc' = "provider"
               /\ UNCHANGED responses
          ELSE /\ pc' = "done"
               /\ responses' = Append(responses, 400)
    /\ UNCHANGED <<args, invoked, settled, llmResponse, llmCalls, result, cacheVars, rawText,
                   writeVars>>

\* createLlmProvider(providerType, providerConfig) in its own try block
HandlerCreateProvider ==
    /\ stage = "generateTutorial"
    /\ pc = "provider"
    /\ \E created \in BOOLEAN :
          IF created
          THEN /\ pc' = "call"
               /\ UNCHANGED responses
          ELSE /\ pc' = "done"
               /\ responses' = Append(responses, 500)
    /\ UNCHANGED <<args, invoked, settled, llmResponse, llmCalls, result, cacheVars, rawText,
                   writeVars>>

\* the call of the next stage, up to its await
HandlerInvoke ==
    /\ stage = "generateTutorial"
    /\ pc = "call"
    /\ Len(invoked) < Len(StageOrder)
    /\ invoked' = Append(invoked, StageOrder[Len(invoked) + 1])
    /\ pc' = "await"
    /\ UNCHANGED <<args, settled, responses, llmResponse, llmCalls, result, cacheVars, rawText,
                   writeVars>>

\* the awaited call settles: the handler stores what it resolved to in
\* sharedData and goes on, or answers and returns
HandlerSettle ==
    /\ stage = "generateTutorial"
    /\ pc = "await"
    /\ LET stageName == invoked[Len(invoked)]
       IN  \E outcome \in StageOutcomes(stageName) :
           \E calls \in StageLlmCalls(stageName, outcome) :
             /\ settled' = Append(settled, outcome)
             /\ llmCalls' = llmCalls + calls
             /\ filesData' = IF stageName = "crawlGitHubFiles" /\ outcome.status = "resolved"
                             THEN FilesOfLen(outcome.size) ELSE filesData
             /\ abstractions' = IF stageName = "identifyAbstractions"
                                     /\ outcome.status = "resolved"
                                 THEN AbstractionsOfLen(outcome.size) ELSE abstractions
             /\ chapterOrder' = IF stageName = "orderChapters" /\ outcome.status = "resolved"
                                THEN outcome.order ELSE chapterOrder
             /\ IF AbortStatus(stageName, outcome) # 0
                THEN /\ responses' = Append(responses, AbortStatus(stageName, outcome))
                     /\ pc' = "done"
                ELSE /\ UNCHANGED responses
                     /\ pc' = IF stageName = "combineTutorial" THEN "zip" ELSE "call"
    /\ UNCHANGED <<stage, rawRef, maxIndex, sanitizeCall, projectAnalysis, invoked,
                   llmResponse, result, cacheVars, rawText,
                   writeVars>>

\* HandlerSendZip in which a throw after res.send(zipBuffer) reaches the
\* catch block
HandlerSendZipThenCatch ==
    /\ stage = "generateTutorial"
    /\ pc = "zip"
    /\ \E zipped \in BOOLEAN, thrown \in BOOLEAN :
          responses' = IF ~zipped THEN Append(responses, 500)
                       ELSE IF thrown THEN responses \o <<200, 500>>
                       ELSE Append(responses, 200)
    /\ pc' = "done"
    /\ UNCHANGED <<args, invoked, settled, llmResponse, llmCalls, result, cacheVars, rawText,
                   writeVars>>

\* await zip.generateAsync(...), the two setHeader calls and
\* res.send(zipBuffer); a rejection or a throw before the ZIP is sent is
\* answered by the catch block, and after res.send only console.log follows
HandlerSendZip ==
    /\ stage = "generateTutorial"
    /\ pc = "zip"
    /\ \E zipped \in BOOLEAN :
          responses' = Append(responses, IF zipped THEN 200 ELSE 500)
    /\ pc' = "done"
    /\ UNCHANGED <<args, invoked, settled, llmResponse, llmCalls, result, cacheVars, rawText,
                   writeVars>>

InitGenerateTutorial ==
    /\ stage = "generateTutorial"
    /\ pc = "idle"
    /\ filesData = <<>>
    /\ abstractions = <<>>
    /\ chapterOrder = <<>>
    /\ rawRef = JsUndefined
    /\ maxIndex = 0
    /\ llmResponse = NoResponse
    /\ llmCalls = 0
    /\ result = Pending
    /\ WriteIdle
    /\ sanitizeCall = NoCall
    /\ RequestIdle
    /\ rawText = NoText
    /\ projectAnalysis = NoAnalysis
    /\ CacheIdle

NextGenerateTutorial ==
    \/ HandlerValidate
    \/ HandlerCreateProvider
    \/ HandlerInvoke
    \/ HandlerSettle
    \/ HandlerSendZip

SpecGenerateTutorial == InitGenerateTutorial /\ [][NextGenerateTutorial]_vars

\* the last call that settled has failed: it rejected, or the crawl gave no
\* file, or identifyAbstractions gave no abstraction
StageFailed ==
    /\ settled # <<>>
    /\ LET k == Len(settled)
       IN  \/ settled[k].status = "rejected"
           \/ invoked[k] \in {"crawlGitHubFiles", "identifyAbstractions"}
                 /\ settled[k].size = 0

\* the stages were invoked in the fixed order, each after all the earlier
\* ones had resolved, and a failed stage was answered with 400 (no files) or
\* 500 and is the last one invoked
StagesInOrder ==
    /\ Len(invoked) <= Len(StageOrder)
    /\ \A k \in DOMAIN invoked : invoked[k] = StageOrder[k]
    /\ Len(invoked) - Len(settled) \in {0, 1}
    /\ \A k \in DOMAIN invoked : k < Len(invoked) => settled[k].status = "resolved"
    /\ StageFailed
          => /\ Len(invoked) = Len(settled)
             /\ pc = "done"
             /\ responses
                  = <<IF settled[Len(settled)].status = "resolved"
                         /\ invoked[Len(settled)] = "crawlGitHubFiles"
                      THEN 400 ELSE 500>>

\* C20: the handler invokes the stages in the fixed order, each only after
\* the previous one has resolved; once a stage rejects, or the crawl returns
\* no files, or identifyAbstractions returns no abstractions, no later stage
\* and no further LLM call is invoked, and the request ends with status 400
\* when no files were fetched and 500 otherwise.
C20_StagesInOrderAbortOnFailure ==
    [][stage = "generateTutorial"
          => /\ StagesInOrder'
             /\ StageFailed => (/\ invoked' = invoked
                                /\ llmCalls' = llmCalls
                                /\ responses' = responses)]_vars

\* identifyAbstractions resolved to no abstraction after its one LLM call:
\* two stages were invoked and the answer is 500
C20_Witness ==
    /\ stage = "generateTutorial"
    /\ invoked = <<"crawlGitHubFiles", "identifyAbstractions">>
    /\ Len(settled) = 2
    /\ settled[2] = StageResolved(0, <<>>)
    /\ llmCalls = 1
    /\ responses = <<500>>
    /\ pc = "done"


PipelineSizes == {1, 2}

\* sharedData.chapterOrder = await orderChapters(...) has resolved and
\* writeChapters(sharedData.chapterOrder, sharedData.abstractions, ...) is
\* called
HandOverChapterOrder ==
    /\ stage = "orderChapters"
    /\ pc = "done"
    /\ result.status = "returned"
    /\ stage' = "writeChapters"
    /\ chapterOrder' = result.value
    /\ pc' = "idle"
    /\ result' = Pending
    /\ llmResponse' = NoResponse
    /\ UNCHANGED <<filesData, abstractions, rawRef, maxIndex, sanitizeCall, projectAnalysis,
                   handlerVars, cacheVars, rawText, llmCalls, writeVars>>

InitPipeline ==
    /\ stage = "orderChapters"
    /\ pc = "idle"
    /\ filesData = FilesOfLen(1)
    /\ abstractions \in {AbstractionsOfLen(M) : M \in PipelineSizes}
    /\ chapterOrder = <<>>
    /\ rawRef = JsUndefined
    /\ maxIndex = 0
    /\ llmResponse = NoResponse
    /\ llmCalls = 0
    /\ result = Pending
    /\ WriteIdle
    /\ sanitizeCall = NoCall
    /\ RequestIdle
    /\ rawText = NoText
    /\ projectAnalysis = ProjectAnalysis(TextA, <<>>)
    /\ CacheIdle

NextPipeline ==
    \/ OrderChapters
    \/ HandOverChapterOrder
    \/ WriteChaptersBegin
    \/ WriteChapterSkip
    \/ WriteChapterCallLlm
    \/ WriteChapterGenerate
    \/ WriteChaptersReturn

SpecPipeline == InitPipeline /\ [][NextPipeline]_vars

\* C27: where orderChapters succeeded on M abstractions and writeChapters
\* then succeeds on its result with the same array, no position is skipped:
\* exactly M chapters are returned, numbered 1..M without a gap, and their
\* abstractionIndex values are a permutation of 0..M-1.
C27_PipelineWritesEveryChapter ==
    (WriteReturned /\ projectAnalysis # NoAnalysis)
        => LET M == Len(abstractions)
           IN  /\ Len(result.value) = M
               /\ \A k \in DOMAIN result.value : result.value[k].chapterNumber = k
               /\ {result.value[k].abstractionIndex : k \in DOMAIN result.value}
                     = {FromInt(i) : i \in 0..(M - 1)}

(***************************************************************************)
(* Stages 1 to 3 from the text of the LLM on: the extraction of the YAML   *)
(* text, yaml.load and the validation.                                     *)
(***************************************************************************)
\* a text that holds ```yaml, an empty line and ```, as a quoted YAML string
\* spanning lines can; "~" stands for the three lines of the block
FenceInString == <<"0", " ", "~">>

\* what yaml.load gives for a text that holds a fenced block: an error, or
\* a value in which the block lies within a quoted string
LoadedAroundFence(stageName) ==
    {BadYaml,
     CASE stageName = "identifyAbstractions"
            -> YamlArray(<<GoodItem(FenceInString, <<JsNumber(FromInt(0))>>)>>)
       [] stageName = "analyzeRelationships"
            -> YamlAnalysis(JsString(FenceInString), TRUE, <<>>)
       [] OTHER -> YamlArray(<<JsString(FenceInString)>>)}

\* what yaml.load gives for a text without a fenced block, or for the
\* interior of one
LoadedPlain(stageName) ==
    {BadYaml, YamlScalar(JsNumber(FromInt(0)))}
       \cup CASE stageName = "identifyAbstractions"
                   -> {YamlArray(<<GoodItem(TextA, <<JsNumber(FromInt(0))>>)>>),
                       YamlItem(GoodItem(TextA, <<>>))}
              [] stageName = "analyzeRelationships"
                   -> {YamlAnalysis(JsString(TextA), TRUE, <<>>),
                       YamlAnalysis(JsString(TextPadded), FALSE, <<>>)}
              [] OTHER -> {YamlArray(<<JsNumber(FromInt(0))>>),
                           YamlArray(<<JsString(<<"1">>), JsNumber(FromInt(0))>>)}

\* the texts of the LLM: without a fenced block (the empty text among them),
\* and with one, whose interior may be empty
LlmTexts(stageName) ==
    {LlmText(TRUE, FALSE, EmptyText, whole)
        : whole \in {EmptyText} \cup {YamlText(FALSE, l) : l \in LoadedPlain(stageName)}}
      \cup
    {LlmText(TRUE, TRUE, interior, YamlText(FALSE, l))
        : interior \in {EmptyText} \cup {YamlText(FALSE, i) : i \in LoadedPlain(stageName)},
          l \in LoadedAroundFence(stageName)}

\* const yamlMatch = llmResponse.match(...); if (!yamlMatch || !yamlMatch[1])
\* yaml.load(llmResponse) else yaml.load(yamlMatch[1]); both failures end in
\* the outer catch
ExtractYaml(text) ==
    IF ~text.fenced \/ text.interior.empty THEN text.whole.loaded
    ELSE text.interior.loaded

ExtractStages == {"identifyAbstractions", "analyzeRelationships", "orderChapters"}

\* identifyAbstractions from the resolved LLM call on
IdentifyParseText ==
    /\ stage = "identifyAbstractions"
    /\ pc = "called"
    /\ llmResponse' = ExtractYaml(rawText)
    /\ result' = ValidateAbstractions(filesData, ExtractYaml(rawText))
    /\ pc' = "done"
    /\ UNCHANGED <<args, handlerVars, cacheVars, rawText, llmCalls, writeVars>>

\* analyzeRelationships from the resolved LLM call on
AnalyzeParseText ==
    /\ stage = "analyzeRelationships"
    /\ pc = "called"
    /\ llmResponse' = ExtractYaml(rawText)
    /\ result' = ValidateAnalysis(abstractions, ExtractYaml(rawText))
    /\ pc' = "done"
    /\ UNCHANGED <<args, handlerVars, cacheVars, rawText, llmCalls, writeVars>>

\* orderChapters from the resolved LLM call on
OrderParseText ==
    /\ stage = "orderChapters"
    /\ pc = "called"
    /\ llmResponse' = ExtractYaml(rawText)
    /\ result' = ValidateOrder(abstractions, ExtractYaml(rawText))
    /\ pc' = "done"
    /\ UNCHANGED <<args, handlerVars, cacheVars, rawText, llmCalls, writeVars>>

\* a stage is awaiting generateContent, which resolves to rawText
InitExtract ==
    /\ stage \in ExtractStages
    /\ pc = "called"
    /\ filesData = FilesOfLen(1)
    /\ abstractions \in {AbstractionsOfLen(M) : M \in 1..2}
    /\ chapterOrder = <<>>
    /\ rawRef = JsUndefined
    /\ maxIndex = 0
    /\ llmResponse = NoResponse
    /\ llmCalls = 1
    /\ result = Pending
    /\ WriteIdle
    /\ sanitizeCall = NoCall
    /\ RequestIdle
    /\ projectAnalysis = IF stage = "orderChapters" THEN ProjectAnalysis(TextA, <<>>)
                         ELSE NoAnalysis
    /\ CacheIdle
    /\ rawText \in LlmTexts(stage)

NextExtract ==
    \/ IdentifyParseText
    \/ AnalyzeParseText
    \/ OrderParseText

SpecExtract == InitExtract /\ [][NextExtract]_vars

\* what a stage makes of a loaded text
StageValidate(loaded) ==
    CASE stage = "identifyAbstractions" -> ValidateAbstractions(filesData, loaded)
      [] stage = "analyzeRelationships" -> ValidateAnalysis(abstractions, loaded)
      [] OTHER -> ValidateOrder(abstractions, loaded)

\* C26: in stages 1 to 3, when the text of the LLM holds a ```yaml fenced
\* block, the result is what the stage makes of the interior of the first
\* block alone, and the text around it has no part in it; the whole text is
\* parsed only when there is no block; and when the chosen text does not
\* parse, the stage rejects and returns nothing.
C26_ExtractionPrecedence ==
    (stage \in ExtractStages /\ rawText.given /\ pc = "done")
        => LET chosen == IF rawText.fenced THEN rawText.interior.loaded
                         ELSE rawText.whole.loaded
           IN  /\ result = StageValidate(chosen)
               /\ chosen = BadYaml
                     => (result.status = "rejected" /\ result.value = <<>>)

(***************************************************************************)
(* GeminiProvider.generateContent and the cache file.  The file system is  *)
(* taken to work: mkdir, readFile, writeFile and appendFile succeed.       *)
(***************************************************************************)
\* the generateContent calls in flight
Callers == {1, 2}

\* the texts the Gemini API answers with and the cache file holds
ApiTexts == {<<>>, <<"a">>, <<"b">>}

\* the cache files a run starts with: none, one with a text under k1 and
\* one with the empty text under k1
InitialCacheFiles ==
    {EmptyCache,
     [EmptyCache EXCEPT !["k1"] = Entry(TRUE, <<"a">>)],
     [EmptyCache EXCEPT !["k1"] = Entry(TRUE, <<>>)]}

\* one generateContent call: where it is (at), its promptHash and useCache,
\* its local variables cache and responseText, how it settled, and what it
\* has done: the entry it found under its key at the first load, the entry
\* the file held under its key after its save, the numbers of API calls, of
\* reads and writes of the cache file and of logInteraction calls, and the
\* calls that had settled when it started
ContentCall(promptHash, useCache) ==
    [at |-> "idle", promptHash |-> promptHash, useCache |-> useCache,
     cache |-> EmptyCache, responseText |-> <<>>,
     status |-> "pending", value |-> <<>>,
     seen |-> NoEntry, stored |-> NoEntry,
     apiCalls |-> 0, reads |-> 0, writes |-> 0, logged |-> 0, after |-> {}]

\* if (cache[promptHash]): the key is there and its text is not empty
CacheHit(cache, promptHash) ==
    cache[promptHash].has /\ cache[promptHash].text # <<>>

\* generateContent(prompt, options) up to its first await
GenerateContentStart(c) ==
    /\ stage = "generateContent"
    /\ contentCalls[c].at = "idle"
    /\ contentCalls' =
          [contentCalls EXCEPT
              ![c].at = IF contentCalls[c].useCache THEN "load" ELSE "api",
              ![c].after = {d \in Callers : contentCalls[d].at = "done"}]
    /\ UNCHANGED <<args, handlerVars, rawText, cacheFile, pc, llmResponse, llmCalls, result,
                   writeVars>>

\* const cache = await loadCache(); if (cache[promptHash]) ...
GenerateContentLoadCache(c) ==
    /\ stage = "generateContent"
    /\ contentCalls[c].at = "load"
    /\ contentCalls' =
          [contentCalls EXCEPT
              ![c].cache = cacheFile,
              ![c].reads = @ + 1,
              ![c].seen = cacheFile[contentCalls[c].promptHash],
              ![c].at = IF CacheHit(cacheFile, contentCalls[c].promptHash)
                        THEN "logHit" ELSE "api"]
    /\ UNCHANGED <<args, handlerVars, rawText, cacheFile, pc, llmResponse, llmCalls, result,
                   writeVars>>

\* await logInteraction(prompt, `[CACHE HIT] ...`); return cachedResponse
GenerateContentReturnCached(c) ==
    /\ stage = "generateContent"
    /\ contentCalls[c].at = "logHit"
    /\ contentCalls' =
          [contentCalls EXCEPT
              ![c].logged = @ + 1,
              ![c].status = "resolved",
              ![c].value = contentCalls[c].cache[contentCalls[c].promptHash].text,
              ![c].at = "done"]
    /\ UNCHANGED <<args, handlerVars, rawText, cacheFile, pc, llmResponse, llmCalls, result,
                   writeVars>>

\* await modelInstance.generateContent(prompt) and response.text(), or the
\* jump to the catch block
GenerateContentCallApi(c) ==
    /\ stage = "generateContent"
    /\ contentCalls[c].at = "api"
    /\ \/ \E text \in ApiTexts :
             contentCalls' =
                [contentCalls EXCEPT
                    ![c].apiCalls = @ + 1,
                    ![c].responseText = text,
                    ![c].at = IF contentCalls[c].useCache THEN "reload" ELSE "log"]
       \/ contentCalls' =
             [contentCalls EXCEPT ![c].apiCalls = @ + 1, ![c].at = "logError"]
    /\ UNCHANGED <<args, handlerVars, rawText, cacheFile, pc, llmResponse, llmCalls, result,
                   writeVars>>

\* const cache = await loadCache(); cache[promptHash] = responseText
GenerateContentReloadCache(c) ==
    /\ stage = "generateContent"
    /\ contentCalls[c].at = "reload"
    /\ contentCalls' =
          [contentCalls EXCEPT
              ![c].cache = [cacheFile EXCEPT ![contentCalls[c].promptHash]
                                                = Entry(TRUE, contentCalls[c].responseText)],
              ![c].reads = @ + 1,
              ![c].at = "save"]
    /\ UNCHANGED <<args, handlerVars, rawText, cacheFile, pc, llmResponse, llmCalls, result,
                   writeVars>>

\* await saveCache(cache)
GenerateContentSaveCache(c) ==
    /\ stage = "generateContent"
    /\ contentCalls[c].at = "save"
    /\ cacheFile' = contentCalls[c].cache
    /\ contentCalls' =
          [contentCalls EXCEPT
              ![c].writes = @ + 1,
              ![c].stored = contentCalls[c].cache[contentCalls[c].promptHash],
              ![c].at = "log"]
    /\ UNCHANGED <<args, handlerVars, rawText, pc, llmResponse, llmCalls, result, writeVars>>

\* await logInteraction(prompt, responseText); return responseText
GenerateContentReturn(c) ==
    /\ stage = "generateContent"
    /\ contentCalls[c].at = "log"
    /\ contentCalls' =
          [contentCalls EXCEPT
              ![c].logged = @ + 1,
              ![c].status = "resolved",
              ![c].value = contentCalls[c].responseText,
              ![c].at = "done"]
    /\ UNCHANGED <<args, handlerVars, rawText, cacheFile, pc, llmResponse, llmCalls, result,
                   writeVars>>

\* catch: await logInteraction(prompt, new Error(...)); throw
GenerateContentThrow(c) ==
    /\ stage = "generateContent"
    /\ contentCalls[c].at = "logError"
    /\ contentCalls' =
          [contentCalls EXCEPT
              ![c].logged = @ + 1,
              ![c].status = "rejected",
              ![c].at = "done"]
    /\ UNCHANGED <<args, handlerVars, rawText, cacheFile, pc, llmResponse, llmCalls, result,
                   writeVars>>

InitGenerateContent ==
    /\ stage = "generateContent"
    /\ pc = "idle"
    /\ filesData = <<>>
    /\ abstractions = <<>>
    /\ chapterOrder = <<>>
    /\ rawRef = JsUndefined
    /\ maxIndex = 0
    /\ llmResponse = NoResponse
    /\ llmCalls = 0
    /\ result = Pending
    /\ WriteIdle
    /\ sanitizeCall = NoCall
    /\ RequestIdle
    /\ rawText = NoText
    /\ projectAnalysis = NoAnalysis
    /\ cacheFile \in InitialCacheFiles
    /\ \E promptHash \in CacheKeys, useCache1 \in BOOLEAN, useCache2 \in BOOLEAN :
          contentCalls = <<ContentCall("k1", useCache1), ContentCall(promptHash, useCache2)>>

NextGenerateContent ==
    \E c \in Callers :
       \/ GenerateContentStart(c)
       \/ GenerateContentLoadCache(c)
       \/ GenerateContentReturnCached(c)
       \/ GenerateContentCallApi(c)
       \/ GenerateContentReloadCache(c)
       \/ GenerateContentSaveCache(c)
       \/ GenerateContentReturn(c)
       \/ GenerateContentThrow(c)

SpecGenerateContent == InitGenerateContent /\ [][NextGenerateContent]_vars

\* C23: with useCache true a call that finds an entry under its key resolves
\* to the cached text without calling the API and without writing the cache
\* file; one that finds none calls the API exactly once and, when the API
\* answers, stores the answer under its key; with useCache false the call
\* calls the API and neither reads nor writes the cache file; in all three
\* cases the interaction is logged.
C23_CacheProtocol ==
    stage = "generateContent"
        => \A c \in Callers :
              LET k == contentCalls[c]
              IN  k.at = "done"
                    => /\ k.logged = 1
                       /\ ~k.useCache
                             => (k.apiCalls = 1 /\ k.reads = 0 /\ k.writes = 0)
                       /\ (k.useCache /\ k.seen.has)
                             => /\ k.status = "resolved"
                                /\ k.value = k.seen.text
                                /\ k.apiCalls = 0
                                /\ k.writes = 0
                       /\ (k.useCache /\ ~k.seen.has)
                             => /\ k.apiCalls = 1
                                /\ k.status = "resolved"
                                      => (k.writes = 1 /\ k.stored = Entry(TRUE, k.value))

\* C24: after a call with useCache true has resolved with r, a later call
\* with the same key and useCache true resolves to r without calling the
\* API, for every text r, the empty one included.
C24_CacheIdempotent ==
    stage = "generateContent"
        => \A c, d \in Callers :
              (/\ contentCalls[c].at = "done"
               /\ d \in contentCalls[c].after
               /\ contentCalls[c].useCache /\ contentCalls[d].useCache
               /\ contentCalls[c].promptHash = contentCalls[d].promptHash
               /\ contentCalls[d].status = "resolved")
                 => /\ contentCalls[c].status = "resolved"
                    /\ contentCalls[c].value = contentCalls[d].value
                    /\ contentCalls[c].apiCalls = 0

\* C29: when two calls with useCache true and different keys both resolve,
\* however their steps interleave, the cache file afterwards holds both
\* responses.
C29_NoLostCacheUpdate ==
    (/\ stage = "generateContent"
     /\ \A c \in Callers :
           /\ contentCalls[c].at = "done"
           /\ contentCalls[c].useCache
           /\ contentCalls[c].status = "resolved"
     /\ contentCalls[1].promptHash # contentCalls[2].promptHash)
        => \A c \in Callers :
              cacheFile[contentCalls[c].promptHash] = Entry(TRUE, contentCalls[c].value)


(***************************************************************************)
(* The stages, the parsers, sanitizeFilename and the handler together.     *)
(***************************************************************************)
Init ==
    \/ InitParse
    \/ InitIdentify
    \/ InitAnalyze
    \/ InitOrder
    \/ InitWrite
    \/ InitSanitize
    \/ InitGenerateTutorial
    \/ InitGenerateContent
    \/ InitExtract

Next ==
    \/ ValidateFileIndex
    \/ ParseAbstractionRef
    \/ ParseAbstractionRefForOrder
    \/ IdentifyAbstractions
    \/ AnalyzeRelationships
    \/ OrderChapters
    \/ WriteChaptersBegin
    \/ WriteChapterSkip
    \/ WriteChapterCallLlm
    \/ WriteChapterGenerate
    \/ WriteChaptersReturn
    \/ SanitizeFilename
    \/ HandlerValidate
    \/ HandlerCreateProvider
    \/ HandlerInvoke
    \/ HandlerSettle
    \/ HandlerSendZip
    \/ NextGenerateContent
    \/ NextExtract

Spec == Init /\ [][Next]_vars

\* a stage was called with its empty input and has returned
EmptyCall ==
    /\ pc = "done"
    /\ \/ stage = "identifyAbstractions" /\ filesData = <<>>
       \/ stage \in {"analyzeRelationships", "orderChapters"} /\ abstractions = <<>>
       \/ stage = "writeChapters" /\ (chapterOrder = <<>> \/ abstractions = <<>>)

\* C9: with its empty input each stage returns its empty result (stage 2 the
\* analysis with the fixed summary and no relationships) and issues no LLM
\* call.
C9_EmptyInputShortCircuit ==
    EmptyCall
        => /\ llmCalls = 0
           /\ utilCalls = 0
           /\ llmResponse = NoResponse
           /\ result = IF stage = "analyzeRelationships"
                       THEN Returned(ProjectAnalysis(NoAbstractionsSummary, <<>>))
                       ELSE Returned(<<>>)

\* writeChapters was called with a non-empty chapterOrder and no abstraction
C9_Witness ==
    /\ EmptyCall
    /\ stage = "writeChapters"
    /\ chapterOrder # <<>>
    /\ abstractions = <<>>
    /\ result = Returned(<<>>)

\* the four core stages
CoreStages ==
    {"identifyAbstractions", "analyzeRelationships", "orderChapters", "writeChapters"}

\* an LLM call of the stage has rejected
AdapterRejected ==
    \/ llmResponse.kind = "rejected"
    \/ stage = "writeChapters" /\ result.status = "rejected" /\ result.error.kind = "llm"

\* what a step of a core stage does with the LLM adapter
NoRetryStep ==
    stage \in CoreStages
        => /\ stage # "writeChapters" => llmCalls' <= 1
           /\ AdapterRejected'
                 => /\ pc' = "done"
                    /\ result'.status = "rejected"
                    /\ result'.error.kind = "llm"
                    /\ result'.value = <<>>
           /\ AdapterRejected
                 => /\ llmCalls' = llmCalls
                    /\ utilCalls' = utilCalls
                    /\ result' = result

\* C21: no core stage retries: stages 1 to 3 call the LLM adapter at most
\* once, and when an adapter call rejects in any stage (chapter k of
\* writeChapters included) the stage rejects with that failure, issues no
\* further LLM call and returns no partial output.
C21_NoRetryNoPartialOutput == [][NoRetryStep]_vars

\* the adapter rejected for chapter 2 of writeChapters after chapter 1 was
\* written: the call rejects and chapter 1 is not returned
C21_Witness ==
    /\ stage = "writeChapters"
    /\ pc = "done"
    /\ llmResponse.kind = "rejected"
    /\ Len(outputs) = 1
    /\ result.status = "rejected"
    /\ result.error.index = 2
    /\ result.value = <<>>

\* a step of a core stage leaves the arrays it was given as they are
FrameStep ==
    stage \in CoreStages
        => /\ filesData' = filesData
           /\ abstractions' = abstractions
           /\ projectAnalysis' = projectAnalysis

\* C22: no stage changes the arrays it is given: over any call of a core
\* stage, returning or rejecting, filesData and abstractions keep their
\* length, their elements and their fileIndices, and the relationships of the
\* analysis passed to orderChapters are unchanged.
C22_ArgumentsUnchanged == [][FrameStep]_vars

\* analyzeRelationships has returned over the largest array of abstractions,
\* which is still the array it was called with
C22_Witness ==
    /\ stage = "analyzeRelationships"
    /\ pc = "done"
    /\ result.status = "returned"
    /\ abstractions = AbstractionsOfLen(MaxAbstractions)

=============================================================================
